---- MODULE Spec2Model ----
(***************************************************************************)
(* A model of secd-rs: the syntax-directed compiler (src/src/compiler.rs)  *)
(* and the SECD virtual machine (src/src/vm.rs).  A caller constructs a    *)
(* Compiler, compiles one AST, constructs a SECD machine from the code     *)
(* (or from hand-written code) and calls run(), which executes one         *)
(* instruction per step.                                                   *)
(***************************************************************************)
EXTENDS Integers, Sequences, FiniteSets, TLC

VARIABLES
    ast,             \* the argument of Compiler::compile (or NoAst)
    ccode,           \* Compiler.code
    letrec_id_list,  \* Compiler.letrec_id_list
    cres,            \* what Compiler::compile returned
    stack,           \* SECD.stack, top at the end
    env,             \* SECD.env
    code,            \* SECD.code
    dump,            \* SECD.dump, top at the end
    pc,              \* the caller's position: "start", "run", "done"
    result,          \* what SECD::run returned
    fetched,         \* run_'s local c: the instruction taken from the code last
    out,             \* the values printed by PUTS, in order
    calls,           \* history: the registers seen by each AP/RAP not yet returned
    sels,            \* history: the number of SELs run whose JOIN has not run
    before           \* history: the argument of each compile call and the Compiler before it

vars == <<ast, ccode, letrec_id_list, cres, stack, env, code, dump, pc, result, fetched, out, calls, sels,
          before>>

(***************************************************************************)
(* Bounds of the model.                                                    *)
(***************************************************************************)
\* the deepest stack the hand-written programs build before the instruction under test
MaxStack == 2
\* the largest argument N of the letrec-recursive programs
MaxN == 3
\* the frames the dump holds at most when a call is made
MaxDump == 64
\* the calls of compile made on one Compiler
MaxCompiles == 2

(***************************************************************************)
(* Sequences as Vec.                                                       *)
(***************************************************************************)
Last(s) == s[Len(s)]
Front(s) == SubSeq(s, 1, Len(s) - 1)
Range(s) == {s[i] : i \in 1..Len(s)}

(***************************************************************************)
(* data::Lisp, the runtime values.                                         *)
(***************************************************************************)
LInt(n) == [tag |-> "Int", n |-> n]
Nil == [tag |-> "Nil"]
True == [tag |-> "True"]
False == [tag |-> "False"]
Cons(a, b) == [tag |-> "Cons", car |-> a, cdr |-> b]
List(vals) == [tag |-> "List", vals |-> vals]
Closure(names, body, cenv) == [tag |-> "Closure", names |-> names, code |-> body, env |-> cenv]

\* Rc<Lisp> == Rc<Lisp>: equality of the pointed-to values
LispEq(a, b) == a = b

(***************************************************************************)
(* i32 arithmetic: an overflow panics in a build with overflow checks and  *)
(* wraps in one without.                                                   *)
(***************************************************************************)
I32Max == 2147483647
I32Min == (-I32Max) - 1
\* the outcomes of m + n on i32
AddOutcomes(m, n) ==
    IF n > 0 /\ m > I32Max - n
    THEN {[panic |-> TRUE, n |-> 0],
          [panic |-> FALSE, n |-> (m - I32Max - 1) + (n - I32Max - 1)]}
    ELSE IF n < 0 /\ m < I32Min - n
    THEN {[panic |-> TRUE, n |-> 0],
          [panic |-> FALSE, n |-> (m + I32Max + 1) + (n + I32Max + 1)]}
    ELSE {[panic |-> FALSE, n |-> m + n]}
\* the outcomes of m - n on i32
SubOutcomes(m, n) ==
    IF n < 0 /\ m > I32Max + n
    THEN {[panic |-> TRUE, n |-> 0],
          [panic |-> FALSE, n |-> (m - I32Max - 1) - (n + I32Max + 1)]}
    ELSE IF n > 0 /\ m < I32Min + n
    THEN {[panic |-> TRUE, n |-> 0],
          [panic |-> FALSE, n |-> (m + I32Max + 1) - (n - I32Max - 1)]}
    ELSE {[panic |-> FALSE, n |-> m - n]}

(***************************************************************************)
(* HashMap<String, Rc<Lisp>>.                                              *)
(***************************************************************************)
EmptyEnv == [id \in {} |-> Nil]
insert(e, id, v) == [x \in DOMAIN e \cup {id} |-> IF x = id THEN v ELSE e[x]]
\* e.extend(f): every binding of f inserted into e
extend(e, f) == [x \in DOMAIN e \cup DOMAIN f |-> IF x \in DOMAIN f THEN f[x] ELSE e[x]]

(***************************************************************************)
(* data::CodeOP, data::CodeOPInfo and data::DumpOP.                        *)
(***************************************************************************)
LET_(id) == [name |-> "LET", id |-> id]
LD(id) == [name |-> "LD", id |-> id]
LDC(lisp) == [name |-> "LDC", lisp |-> lisp]
LDF(names, body) == [name |-> "LDF", names |-> names, code |-> body]
RET == [name |-> "RET"]
AP == [name |-> "AP"]
RAP == [name |-> "RAP"]
ARGS(n) == [name |-> "ARGS", n |-> n]
PUTS == [name |-> "PUTS"]
SEL(t, f) == [name |-> "SEL", t |-> t, f |-> f]
JOIN == [name |-> "JOIN"]
EQ == [name |-> "EQ"]
ADD == [name |-> "ADD"]
SUB == [name |-> "SUB"]
CONS == [name |-> "CONS"]
CAR == [name |-> "CAR"]
CDR == [name |-> "CDR"]
CodeOPInfo(info, op) == [info |-> info, op |-> op]

DumpAP(s, e, c) == [tag |-> "DumpAP", stack |-> s, env |-> e, code |-> c]
DumpSEL(c) == [tag |-> "DumpSEL", code |-> c]

(***************************************************************************)
(* Results.                                                                *)
(***************************************************************************)
None == [kind |-> "None"]
Ok(v) == [kind |-> "Ok", val |-> v]
\* Err(format!("{}:{}:vm error: {}", info[0], info[1], msg))
VmErr(info, msg) == [kind |-> "Err", info |-> info, what |-> "vm error", msg |-> msg]
\* Err(format!("{}:{}:compile error: {}", info[0], info[1], msg))
CompileErr(info, msg) == [kind |-> "Err", info |-> info, what |-> "compile error", msg |-> msg]
\* the thread unwinds: nothing is returned
Panic(msg) == [kind |-> "Panic", msg |-> msg]

(***************************************************************************)
(* SECD: the virtual machine.  run_ has removed the instruction from the   *)
(* front of code before it calls a handler, so inside a handler self.code  *)
(* is Tail(code).                                                          *)
(***************************************************************************)
compilerUnchanged == UNCHANGED <<ast, ccode, letrec_id_list, cres, before>>

\* a handler returned Ok(()) leaving the registers s, e, c, d: the loop goes on
Returns(s, e, c, d) ==
    /\ stack' = s
    /\ env' = e
    /\ code' = c
    /\ dump' = d
    /\ pc' = "run"
    /\ result' = result

\* SECD::error, propagated by try! out of run_ and run: the registers stay
\* as the handler left them (stack s, dump d)
error(info, msg, s, d) ==
    /\ stack' = s
    /\ env' = env
    /\ code' = Tail(code)
    /\ dump' = d
    /\ pc' = "done"
    /\ result' = VmErr(info, msg)

\* a panic inside a handler or in run
Panics(msg, s) ==
    /\ stack' = s
    /\ env' = env
    /\ code' = IF code = <<>> THEN code ELSE Tail(code)
    /\ dump' = dump
    /\ pc' = "done"
    /\ result' = Panic(msg)

\* run_let keeping the binding an enclosing let has made
run_let_keeping_outer(info, id) ==
    IF Len(stack) > 0
    THEN Returns(Front(stack),
                 IF id \in DOMAIN env THEN env ELSE insert(env, id, Last(stack)),
                 Tail(code), dump)
    ELSE error(info, "LET: stack is empty", stack, dump)

run_let(info, id) ==
    IF Len(stack) > 0
    THEN Returns(Front(stack), insert(env, id, Last(stack)), Tail(code), dump)
    ELSE error(info, "LET: stack is empty", stack, dump)

run_ld(info, id) ==
    IF id \in DOMAIN env
    THEN Returns(Append(stack, env[id]), env, Tail(code), dump)
    ELSE error(info, "LD: found " \o id, stack, dump)

run_ldc(info, lisp) ==
    Returns(Append(stack, lisp), env, Tail(code), dump)

\* run_ldf creating the closure with an empty environment
run_ldf_capturing_nothing(info, names, body) ==
    Returns(Append(stack, Closure(names, body, EmptyEnv)), env, Tail(code), dump)

run_ldf(info, names, body) ==
    Returns(Append(stack, Closure(names, body, env)), env, Tail(code), dump)

\* the loop of run_ap and run_rap: env.insert(names[i], vals[i]) for i in 0..names.len()
RECURSIVE bind(_, _, _, _)
bind(e, names, vals, i) ==
    IF i > Len(names) THEN e
    ELSE bind(insert(e, names[i], vals[i]), names, vals, i + 1)

\* run_ap pushing the frame after it has replaced self.env: the frame holds
\* the callee's environment
run_ap_saving_callee_env(info) ==
    IF Len(stack) = 0 THEN error(info, "AP: stack is empty", stack, dump)
    ELSE LET closure == Last(stack)
             s1 == Front(stack)
         IN  IF closure.tag # "Closure" THEN error(info, "AP: expected Closure", s1, dump)
             ELSE IF Len(s1) = 0 THEN error(info, "AP: stack is empty", s1, dump)
             ELSE LET list == Last(s1)
                      s2 == Front(s1)
                  IN  IF list.tag # "List" THEN error(info, "AP: expected List", s2, dump)
                      ELSE IF Len(closure.names) > Len(list.vals)
                      THEN Panics("index out of bounds", s2)
                      ELSE LET callee == bind(closure.env, closure.names, list.vals, 1)
                           IN  Returns(<<>>, callee, closure.code,
                                       Append(dump, DumpAP(s2, callee, Tail(code))))

\* run_ap building the callee's environment on the caller's, as run_rap does
run_ap_in_caller_env(info) ==
    IF Len(stack) = 0 THEN error(info, "AP: stack is empty", stack, dump)
    ELSE LET closure == Last(stack)
             s1 == Front(stack)
         IN  IF closure.tag # "Closure" THEN error(info, "AP: expected Closure", s1, dump)
             ELSE IF Len(s1) = 0 THEN error(info, "AP: stack is empty", s1, dump)
             ELSE LET list == Last(s1)
                      s2 == Front(s1)
                  IN  IF list.tag # "List" THEN error(info, "AP: expected List", s2, dump)
                      ELSE IF Len(closure.names) > Len(list.vals)
                      THEN Panics("index out of bounds", s2)
                      ELSE Returns(<<>>,
                                   extend(env, bind(closure.env, closure.names, list.vals, 1)),
                                   closure.code,
                                   Append(dump, DumpAP(s2, env, Tail(code))))

run_ap(info) ==
    IF Len(stack) = 0 THEN error(info, "AP: stack is empty", stack, dump)
    ELSE LET closure == Last(stack)
             s1 == Front(stack)
         IN  IF closure.tag # "Closure" THEN error(info, "AP: expected Closure", s1, dump)
             ELSE IF Len(s1) = 0 THEN error(info, "AP: stack is empty", s1, dump)
             ELSE LET list == Last(s1)
                      s2 == Front(s1)
                  IN  IF list.tag # "List" THEN error(info, "AP: expected List", s2, dump)
                      ELSE IF Len(closure.names) > Len(list.vals)
                      THEN Panics("index out of bounds", s2)
                      ELSE Returns(<<>>,
                                   bind(closure.env, closure.names, list.vals, 1),
                                   closure.code,
                                   Append(dump, DumpAP(s2, env, Tail(code))))

\* run_rap pushing the frame after self.env.extend(env): the frame holds the
\* callee's environment
run_rap_saving_callee_env(info) ==
    IF Len(stack) = 0 THEN error(info, "RAP: stack is empty", stack, dump)
    ELSE LET closure == Last(stack)
             s1 == Front(stack)
         IN  IF closure.tag # "Closure" THEN error(info, "RAP: expected Closure", s1, dump)
             ELSE IF Len(s1) = 0 THEN error(info, "RAP: stack is empty", s1, dump)
             ELSE LET list == Last(s1)
                      s2 == Front(s1)
                  IN  IF list.tag # "List" THEN error(info, "RAP: expected List", s2, dump)
                      ELSE IF Len(closure.names) > Len(list.vals)
                      THEN Panics("index out of bounds", s2)
                      ELSE LET callee == extend(env, bind(closure.env, closure.names, list.vals, 1))
                           IN  Returns(<<>>, callee, closure.code,
                                       Append(dump, DumpAP(s2, callee, Tail(code))))

run_rap(info) ==
    IF Len(stack) = 0 THEN error(info, "RAP: stack is empty", stack, dump)
    ELSE LET closure == Last(stack)
             s1 == Front(stack)
         IN  IF closure.tag # "Closure" THEN error(info, "RAP: expected Closure", s1, dump)
             ELSE IF Len(s1) = 0 THEN error(info, "RAP: stack is empty", s1, dump)
             ELSE LET list == Last(s1)
                      s2 == Front(s1)
                  IN  IF list.tag # "List" THEN error(info, "RAP: expected List", s2, dump)
                      ELSE IF Len(closure.names) > Len(list.vals)
                      THEN Panics("index out of bounds", s2)
                      ELSE Returns(<<>>,
                                   extend(env, bind(closure.env, closure.names, list.vals, 1)),
                                   closure.code,
                                   Append(dump, DumpAP(s2, env, Tail(code))))

\* run_ret without self.env = env: the callee's environment stays
run_ret_keeping_env(info) ==
    IF Len(stack) = 0 THEN error(info, "RET: stack is empty", stack, dump)
    ELSE LET val == Last(stack)
             s1 == Front(stack)
         IN  IF Len(dump) = 0 THEN error(info, "RET: dump is empty", s1, dump)
             ELSE IF Last(dump).tag # "DumpAP"
             THEN error(info, "RET: dump is empty", s1, Front(dump))
             ELSE Returns(Append(Last(dump).stack, val), env,
                          Last(dump).code, Front(dump))

run_ret(info) ==
    IF Len(stack) = 0 THEN error(info, "RET: stack is empty", stack, dump)
    ELSE LET val == Last(stack)
             s1 == Front(stack)
         IN  IF Len(dump) = 0 THEN error(info, "RET: dump is empty", s1, dump)
             ELSE IF Last(dump).tag # "DumpAP"
             THEN error(info, "RET: dump is empty", s1, Front(dump))
             ELSE Returns(Append(Last(dump).stack, val), Last(dump).env,
                          Last(dump).code, Front(dump))

\* the loop of run_args with ls.push(a) in place of ls.insert(0, a)
RECURSIVE args_loop_pushing(_, _, _, _)
args_loop_pushing(info, n, k, st) ==
    IF k = 0 THEN [err |-> FALSE, stack |-> st.stack, ls |-> st.ls]
    ELSE IF Len(st.stack) = 0 THEN [err |-> TRUE, stack |-> st.stack, ls |-> st.ls]
    ELSE args_loop_pushing(info, n, k - 1,
                           [stack |-> Front(st.stack), ls |-> Append(st.ls, Last(st.stack))])

\* the loop of run_args: ls.insert(0, a) for each of n pops; k values are
\* still to pop, ls holds those popped so far
RECURSIVE args_loop(_, _, _, _)
args_loop(info, n, k, st) ==
    IF k = 0 THEN [err |-> FALSE, stack |-> st.stack, ls |-> st.ls]
    ELSE IF Len(st.stack) = 0 THEN [err |-> TRUE, stack |-> st.stack, ls |-> st.ls]
    ELSE args_loop(info, n, k - 1,
                   [stack |-> Front(st.stack), ls |-> <<Last(st.stack)>> \o st.ls])

run_args(info, n) ==
    LET r == args_loop(info, n, n, [stack |-> stack, ls |-> <<>>])
    IN  IF r.err THEN error(info, "ARGS: " \o ToString(n), r.stack, dump)
        ELSE Returns(Append(r.stack, List(r.ls)), env, Tail(code), dump)

run_puts(info) ==
    IF Len(stack) = 0 THEN error(info, "PUTS: expected args", stack, dump) /\ out' = out
    ELSE Returns(stack, env, Tail(code), dump) /\ out' = Append(out, Last(stack))

\* run_sel taking every value but False for true
run_sel_truthy(info, t, f) ==
    IF Len(stack) = 0 THEN error(info, "SEL: stack is empty", stack, dump)
    ELSE LET b == Last(stack)
             s1 == Front(stack)
         IN  Returns(s1, env, IF b.tag # "False" THEN t ELSE f,
                     Append(dump, DumpSEL(Tail(code))))

run_sel(info, t, f) ==
    IF Len(stack) = 0 THEN error(info, "SEL: stack is empty", stack, dump)
    ELSE LET b == Last(stack)
             s1 == Front(stack)
         IN  IF b.tag \notin {"True", "False"} THEN error(info, "SEL: expected bool", s1, dump)
             ELSE Returns(s1, env, IF b.tag = "True" THEN t ELSE f,
                          Append(dump, DumpSEL(Tail(code))))

\* run_join reading the frame without popping it
run_join_keeping_frame(info) ==
    IF Len(dump) = 0 THEN error(info, "JOIN: dump is empty", stack, dump)
    ELSE IF Last(dump).tag # "DumpSEL"
    THEN error(info, "JOIN: expected DumpSEL", stack, Front(dump))
    ELSE Returns(stack, env, Last(dump).code, dump)

run_join(info) ==
    IF Len(dump) = 0 THEN error(info, "JOIN: dump is empty", stack, dump)
    ELSE IF Last(dump).tag # "DumpSEL"
    THEN error(info, "JOIN: expected DumpSEL", stack, Front(dump))
    ELSE Returns(stack, env, Last(dump).code, Front(dump))

\* run_eq comparing the variants only, not the contents
run_eq_by_variant(info) ==
    IF Len(stack) = 0 THEN error(info, "EQ: stack is empty", stack, dump)
    ELSE LET a == Last(stack)
             s1 == Front(stack)
         IN  IF Len(s1) = 0 THEN error(info, "EQ: stack is empty", s1, dump)
             ELSE LET b == Last(s1)
                      s2 == Front(s1)
                  IN  Returns(Append(s2, IF a.tag = b.tag THEN True ELSE False),
                              env, Tail(code), dump)

run_eq(info) ==
    IF Len(stack) = 0 THEN error(info, "EQ: stack is empty", stack, dump)
    ELSE LET a == Last(stack)
             s1 == Front(stack)
         IN  IF Len(s1) = 0 THEN error(info, "EQ: stack is empty", s1, dump)
             ELSE LET b == Last(s1)
                      s2 == Front(s1)
                  IN  Returns(Append(s2, IF LispEq(a, b) THEN True ELSE False),
                              env, Tail(code), dump)

run_add(info) ==
    IF Len(stack) = 0 THEN error(info, "ADD: stack is empty", stack, dump)
    ELSE LET a == Last(stack)
             s1 == Front(stack)
         IN  IF a.tag # "Int" THEN error(info, "ADD: expected int", s1, dump)
             ELSE IF Len(s1) = 0 THEN error(info, "ADD: stack is empty", s1, dump)
             ELSE LET b == Last(s1)
                      s2 == Front(s1)
                  IN  IF b.tag # "Int" THEN error(info, "ADD: expected int", s2, dump)
                      ELSE \E o \in AddOutcomes(b.n, a.n) :
                               IF o.panic THEN Panics("attempt to add with overflow", s2)
                               ELSE Returns(Append(s2, LInt(o.n)), env, Tail(code), dump)

\* run_sub subtracting the second-popped value from the first-popped one
run_sub_swapped(info) ==
    IF Len(stack) = 0 THEN error(info, "SUB: stack is empty", stack, dump)
    ELSE LET a == Last(stack)
             s1 == Front(stack)
         IN  IF a.tag # "Int" THEN error(info, "SUB: expected int", s1, dump)
             ELSE IF Len(s1) = 0 THEN error(info, "SUB: stack is empty", s1, dump)
             ELSE LET b == Last(s1)
                      s2 == Front(s1)
                  IN  IF b.tag # "Int" THEN error(info, "SUB: expected int", s2, dump)
                      ELSE \E o \in SubOutcomes(a.n, b.n) :
                               IF o.panic THEN Panics("attempt to subtract with overflow", s2)
                               ELSE Returns(Append(s2, LInt(o.n)), env, Tail(code), dump)

run_sub(info) ==
    IF Len(stack) = 0 THEN error(info, "SUB: stack is empty", stack, dump)
    ELSE LET a == Last(stack)
             s1 == Front(stack)
         IN  IF a.tag # "Int" THEN error(info, "SUB: expected int", s1, dump)
             ELSE IF Len(s1) = 0 THEN error(info, "SUB: stack is empty", s1, dump)
             ELSE LET b == Last(s1)
                      s2 == Front(s1)
                  IN  IF b.tag # "Int" THEN error(info, "SUB: expected int", s2, dump)
                      ELSE \E o \in SubOutcomes(b.n, a.n) :
                               IF o.panic THEN Panics("attempt to subtract with overflow", s2)
                               ELSE Returns(Append(s2, LInt(o.n)), env, Tail(code), dump)

\* run_cons building the pair as Cons(a, b), first-popped value first
run_cons_swapped(info) ==
    IF Len(stack) = 0 THEN error(info, "CONS: stack is empty", stack, dump)
    ELSE LET a == Last(stack)
             s1 == Front(stack)
         IN  IF Len(s1) = 0 THEN error(info, "CONS: stack is empty", s1, dump)
             ELSE LET b == Last(s1)
                      s2 == Front(s1)
                  IN  Returns(Append(s2, Cons(a, b)), env, Tail(code), dump)

run_cons(info) ==
    IF Len(stack) = 0 THEN error(info, "CONS: stack is empty", stack, dump)
    ELSE LET a == Last(stack)
             s1 == Front(stack)
         IN  IF Len(s1) = 0 THEN error(info, "CONS: stack is empty", s1, dump)
             ELSE LET b == Last(s1)
                      s2 == Front(s1)
                  IN  Returns(Append(s2, Cons(b, a)), env, Tail(code), dump)

run_car(info) ==
    IF Len(stack) = 0 THEN error(info, "CAR: stack is empty", stack, dump)
    ELSE LET a == Last(stack)
             s1 == Front(stack)
         IN  IF a.tag # "Cons" THEN error(info, "CAR: expected Cons", s1, dump)
             ELSE Returns(Append(s1, a.car), env, Tail(code), dump)

run_cdr(info) ==
    IF Len(stack) = 0 THEN error(info, "CDR: stack is empty", stack, dump)
    ELSE LET a == Last(stack)
             s1 == Front(stack)
         IN  IF a.tag # "Cons" THEN error(info, "CDR: expected Cons", s1, dump)
             ELSE Returns(Append(s1, a.cdr), env, Tail(code), dump)

(***************************************************************************)
(* data::AST and data::SExpr.                                              *)
(***************************************************************************)
SInt(n) == [tag |-> "Int", n |-> n]
Atom(id) == [tag |-> "Atom", id |-> id]
SList(ls) == [tag |-> "List", ls |-> ls]
AST(sexpr, info) == [sexpr |-> sexpr, info |-> info]

(***************************************************************************)
(* Compiler.  A method taking &mut self and returning CompilerResult is an *)
(* operator from the compiler's fields to the fields it leaves and the     *)
(* result it returns.                                                      *)
(***************************************************************************)
Unit == <<>>
\* Compiler::new
Compiler_new == [code |-> <<>>, letrec_id_list |-> <<>>]
CRet(self, res) == [self |-> self, res |-> res]
\* self.code.push(c)
push(self, c) == [self EXCEPT !.code = Append(@, c)]
\* self.letrec_id_list.retain(|a| *a != id)
retain(ids, id) == SelectSeq(ids, LAMBDA a : a # id)

RECURSIVE compile_(_, _)
RECURSIVE compile_lambda(_, _, _)
RECURSIVE compile_let(_, _, _)
RECURSIVE compile_letrec(_, _, _)
RECURSIVE compile_puts(_, _, _)
RECURSIVE compile_apply(_, _, _, _)
RECURSIVE compile_if(_, _, _)
RECURSIVE compile_eq(_, _, _)
RECURSIVE compile_add(_, _, _)
RECURSIVE compile_sub(_, _, _)
RECURSIVE compile_cons(_, _, _)
RECURSIVE compile_car(_, _, _)
RECURSIVE compile_cdr(_, _, _)
RECURSIVE compile_args(_, _)
RECURSIVE compile_binary(_, _, _, _)
RECURSIVE compile_unary(_, _, _, _)

compile_int(self, info, n) ==
    CRet(push(self, CodeOPInfo(info, LDC(LInt(n)))), Ok(Unit))

\* compile_atom without the three reserved names: every symbol is an LD
compile_atom_loading_all(self, info, id) ==
    CRet(push(self, CodeOPInfo(info, LD(id))), Ok(Unit))

compile_atom(self, info, id) ==
    CASE id = "nil" -> CRet(push(self, CodeOPInfo(info, LDC(Nil))), Ok(Unit))
      [] id = "true" -> CRet(push(self, CodeOPInfo(info, LDC(True))), Ok(Unit))
      [] id = "false" -> CRet(push(self, CodeOPInfo(info, LDC(False))), Ok(Unit))
      [] OTHER -> CRet(push(self, CodeOPInfo(info, LD(id))), Ok(Unit))

compile_nil(self, info) ==
    CRet(push(self, CodeOPInfo(info, LDC(Nil))), Ok(Unit))

\* lambda_body closing the body with JOIN in place of RET
lambda_body_ending_in_join(self, info, args, body) ==
    LET body_compiler == [code |-> <<>>, letrec_id_list |-> self.letrec_id_list]
        r == compile_(body_compiler, body)
    IN  IF r.res.kind = "Err" THEN CRet(self, r.res)
        ELSE CRet(push(self, CodeOPInfo(info,
                        LDF(args, Append(r.self.code, CodeOPInfo(info, JOIN))))),
                  Ok(Unit))

\* compile_lambda once the parameter names are collected
lambda_body(self, info, args, body) ==
    LET body_compiler == [code |-> <<>>, letrec_id_list |-> self.letrec_id_list]
        r == compile_(body_compiler, body)
    IN  IF r.res.kind = "Err" THEN CRet(self, r.res)
        ELSE CRet(push(self, CodeOPInfo(info,
                        LDF(args, Append(r.self.code, CodeOPInfo(info, RET))))),
                  Ok(Unit))

compile_lambda(self, info, ls) ==
    IF Len(ls) # 2 THEN CRet(self, CompileErr(info, "lambda syntax"))
    ELSE LET arg == ls[1]
             body == ls[2]
         IN  CASE arg.sexpr.tag = "Atom" -> lambda_body(self, info, <<arg.sexpr.id>>, body)
               [] arg.sexpr.tag = "List" ->
                    LET aa == arg.sexpr.ls
                    IN  IF \E i \in 1..Len(aa) : aa[i].sexpr.tag # "Atom"
                        THEN CRet(self, CompileErr(info, "lambda args"))
                        ELSE lambda_body(self, info,
                                         [i \in 1..Len(aa) |-> aa[i].sexpr.id], body)
               [] OTHER -> CRet(self, CompileErr(arg.info, "lambda args"))

compile_let(self, info, ls) ==
    IF Len(ls) # 3 THEN CRet(self, CompileErr(info, "let syntax"))
    ELSE LET var == ls[1]
             expr == ls[2]
             body == ls[3]
         IN  IF var.sexpr.tag # "Atom" THEN CRet(self, CompileErr(info, "let bind id sytax"))
             ELSE LET id == var.sexpr.id
                      s1 == [self EXCEPT !.letrec_id_list = retain(@, id)]
                      r == compile_(s1, expr)
                  IN  IF r.res.kind = "Err" THEN r
                      ELSE compile_(push(r.self, CodeOPInfo(info, LET_(id))), body)

\* compile_letrec without self.letrec_id_list.push(id.clone()): the calls of
\* id are compiled to AP
compile_letrec_untracked(self, info, ls) ==
    IF Len(ls) # 3 THEN CRet(self, CompileErr(info, "let syntax"))
    ELSE LET var == ls[1]
             expr == ls[2]
             body == ls[3]
         IN  IF var.sexpr.tag # "Atom" THEN CRet(self, CompileErr(info, "let bind id sytax"))
             ELSE LET id == var.sexpr.id
                      r == compile_(self, expr)
                  IN  IF r.res.kind = "Err" THEN r
                      ELSE compile_(push(r.self, CodeOPInfo(info, LET_(id))), body)

compile_letrec(self, info, ls) ==
    IF Len(ls) # 3 THEN CRet(self, CompileErr(info, "let syntax"))
    ELSE LET var == ls[1]
             expr == ls[2]
             body == ls[3]
         IN  IF var.sexpr.tag # "Atom" THEN CRet(self, CompileErr(info, "let bind id sytax"))
             ELSE LET id == var.sexpr.id
                      s1 == [self EXCEPT !.letrec_id_list = Append(@, id)]
                      r == compile_(s1, expr)
                  IN  IF r.res.kind = "Err" THEN r
                      ELSE compile_(push(r.self, CodeOPInfo(info, LET_(id))), body)

\* compile_unary checking only that there is an argument
compile_unary_lenient(self, info, ls, f) ==
    IF Len(ls) = 0 THEN CRet(self, CompileErr(info, f.syntax))
    ELSE LET r == compile_(self, ls[1])
         IN  IF r.res.kind = "Err" THEN r
             ELSE CRet(push(r.self, CodeOPInfo(info, f.op)), Ok(Unit))

\* the shape shared by compile_puts, compile_car and compile_cdr:
\* compile expr, then push op
compile_unary(self, info, ls, f) ==
    IF Len(ls) # 1 THEN CRet(self, CompileErr(info, f.syntax))
    ELSE LET r == compile_(self, ls[1])
         IN  IF r.res.kind = "Err" THEN r
             ELSE CRet(push(r.self, CodeOPInfo(info, f.op)), Ok(Unit))

compile_puts(self, info, ls) == compile_unary(self, info, ls, [syntax |-> "puts syntax", op |-> PUTS])

\* for arg in args: try!(self.compile_(arg))
compile_args(self, args) ==
    IF Len(args) = 0 THEN CRet(self, Ok(Unit))
    ELSE LET r == compile_(self, Head(args))
         IN  IF r.res.kind = "Err" THEN r
             ELSE compile_args(r.self, Tail(args))

\* compile_apply compiling the head before the arguments
compile_apply_head_first(self, info, lambda, ls) ==
    LET nargs == Len(ls)
        is_atom == lambda.sexpr.tag = "Atom"
        rl == compile_(self, lambda)
    IN  IF rl.res.kind = "Err" THEN rl
        ELSE LET ra == compile_args(rl.self, ls)
             IN  IF ra.res.kind = "Err" THEN ra
                 ELSE LET s1 == push(ra.self, CodeOPInfo(info, ARGS(nargs)))
                      IN  IF is_atom /\ \E i \in 1..Len(s1.letrec_id_list) :
                                            s1.letrec_id_list[i] = lambda.sexpr.id
                          THEN CRet(push(s1, CodeOPInfo(info, RAP)), Ok(Unit))
                          ELSE CRet(push(s1, CodeOPInfo(info, AP)), Ok(Unit))

compile_apply(self, info, lambda, ls) ==
    LET nargs == Len(ls)
        ra == compile_args(self, ls)
    IN  IF ra.res.kind = "Err" THEN ra
        ELSE LET s1 == push(ra.self, CodeOPInfo(info, ARGS(nargs)))
                 is_atom == lambda.sexpr.tag = "Atom"
                 rl == compile_(s1, lambda)
             IN  IF rl.res.kind = "Err" THEN rl
                 ELSE IF is_atom /\ \E i \in 1..Len(rl.self.letrec_id_list) :
                                        rl.self.letrec_id_list[i] = lambda.sexpr.id
                 THEN CRet(push(rl.self, CodeOPInfo(info, RAP)), Ok(Unit))
                 ELSE CRet(push(rl.self, CodeOPInfo(info, AP)), Ok(Unit))

\* compile_if with one tracking list shared by the condition, both branches
\* and what follows, in place of the two clones
compile_if_sharing(self, info, ls) ==
    IF Len(ls) # 3 THEN CRet(self, CompileErr(info, "if syntax"))
    ELSE LET cond == ls[1]
             then == ls[2]
             else_ == ls[3]
             rc == compile_(self, cond)
         IN  IF rc.res.kind = "Err" THEN rc
             ELSE LET tc == [code |-> <<>>, letrec_id_list |-> rc.self.letrec_id_list]
                      rt == compile_(tc, then)
                  IN  IF rt.res.kind = "Err" THEN CRet(rc.self, rt.res)
                      ELSE LET fc == [code |-> <<>>, letrec_id_list |-> rt.self.letrec_id_list]
                               rf == compile_(fc, else_)
                           IN  IF rf.res.kind = "Err" THEN CRet(rc.self, rf.res)
                               ELSE CRet(push([rc.self EXCEPT !.letrec_id_list =
                                                     rf.self.letrec_id_list],
                                              CodeOPInfo(info,
                                            SEL(Append(rt.self.code, CodeOPInfo(then.info, JOIN)),
                                                Append(rf.self.code, CodeOPInfo(else_.info, JOIN))))),
                                         Ok(Unit))

compile_if(self, info, ls) ==
    IF Len(ls) # 3 THEN CRet(self, CompileErr(info, "if syntax"))
    ELSE LET cond == ls[1]
             then == ls[2]
             else_ == ls[3]
             rc == compile_(self, cond)
         IN  IF rc.res.kind = "Err" THEN rc
             ELSE LET tc == [code |-> <<>>, letrec_id_list |-> rc.self.letrec_id_list]
                      rt == compile_(tc, then)
                  IN  IF rt.res.kind = "Err" THEN CRet(rc.self, rt.res)
                      ELSE LET fc == [code |-> <<>>, letrec_id_list |-> rc.self.letrec_id_list]
                               rf == compile_(fc, else_)
                           IN  IF rf.res.kind = "Err" THEN CRet(rc.self, rf.res)
                               ELSE CRet(push(rc.self, CodeOPInfo(info,
                                            SEL(Append(rt.self.code, CodeOPInfo(then.info, JOIN)),
                                                Append(rf.self.code, CodeOPInfo(else_.info, JOIN))))),
                                         Ok(Unit))

\* the shape shared by compile_eq, compile_add, compile_sub and compile_cons:
\* compile l, compile r, then push op
compile_binary(self, info, ls, f) ==
    IF Len(ls) # 2 THEN CRet(self, CompileErr(info, f.syntax))
    ELSE LET l == ls[1]
             r == ls[2]
             rl == compile_(self, l)
         IN  IF rl.res.kind = "Err" THEN rl
             ELSE LET rr == compile_(rl.self, r)
                  IN  IF rr.res.kind = "Err" THEN rr
                      ELSE CRet(push(rr.self, CodeOPInfo(info, f.op)), Ok(Unit))

compile_eq(self, info, ls) == compile_binary(self, info, ls, [syntax |-> "eq syntax", op |-> EQ])

compile_add(self, info, ls) == compile_binary(self, info, ls, [syntax |-> "add syntax", op |-> ADD])

compile_sub(self, info, ls) == compile_binary(self, info, ls, [syntax |-> "sub syntax", op |-> SUB])

compile_cons(self, info, ls) == compile_binary(self, info, ls, [syntax |-> "cons syntax", op |-> CONS])

compile_car(self, info, ls) == compile_unary(self, info, ls, [syntax |-> "car syntax", op |-> CAR])

compile_cdr(self, info, ls) == compile_unary(self, info, ls, [syntax |-> "cdr syntax", op |-> CDR])

compile_(self, a) ==
    LET info == a.info
    IN  CASE a.sexpr.tag = "Int" -> compile_int(self, info, a.sexpr.n)
          [] a.sexpr.tag = "Atom" -> compile_atom(self, info, a.sexpr.id)
          [] a.sexpr.tag = "List" ->
               LET ls == a.sexpr.ls
               IN  IF Len(ls) = 0 THEN compile_nil(self, info)
                   ELSE LET fun == Head(ls)
                            args == Tail(ls)
                            finfo == fun.info
                        IN  CASE fun.sexpr.tag = "Int" ->
                                   CRet(self, CompileErr(finfo, "apply unexpect int"))
                              [] fun.sexpr.tag = "Atom" ->
                                   LET id == fun.sexpr.id
                                   IN  CASE id = "lambda" -> compile_lambda(self, finfo, args)
                                         [] id = "let" -> compile_let(self, finfo, args)
                                         [] id = "letrec" -> compile_letrec(self, finfo, args)
                                         [] id = "puts" -> compile_puts(self, finfo, args)
                                         [] id = "if" -> compile_if(self, finfo, args)
                                         [] id = "eq" -> compile_eq(self, finfo, args)
                                         [] id = "+" -> compile_add(self, finfo, args)
                                         [] id = "-" -> compile_sub(self, finfo, args)
                                         [] id = "cons" -> compile_cons(self, finfo, args)
                                         [] id = "car" -> compile_car(self, finfo, args)
                                         [] id = "cdr" -> compile_cdr(self, finfo, args)
                                         [] OTHER -> compile_apply(self, finfo,
                                                         AST(Atom(id), finfo), args)
                              [] fun.sexpr.tag = "List" ->
                                   compile_apply(self, finfo, AST(fun.sexpr, finfo), args)

\* Compiler::compile starting from an empty buffer
compile_clearing(self, a) ==
    LET r == compile_([self EXCEPT !.code = <<>>], a)
    IN  IF r.res.kind = "Err" THEN r
        ELSE CRet(r.self, Ok(r.self.code))

\* Compiler::compile
compile(self, a) ==
    LET r == compile_(self, a)
    IN  IF r.res.kind = "Err" THEN r
        ELSE CRet(r.self, Ok(r.self.code))

(***************************************************************************)
(* SECD::new, SECD::run and the loop of SECD::run_: one instruction per    *)
(* step.                                                                   *)
(***************************************************************************)
\* while self.code.len() > 0 { let c = self.code.remove(0); match c.op {
Fetch(name) == pc = "run" /\ Len(code) > 0 /\ Head(code).op.name = name

\* history: what a call instruction about to succeed sees once it has popped
\* the closure and the argument List
CallRecord(kind) ==
    [kind |-> kind,
     stack |-> SubSeq(stack, 1, Len(stack) - 2),
     env |-> env,
     code |-> Tail(code),
     depth |-> Len(dump),
     k |-> Len(Last(stack).names),
     n |-> Len(stack[Len(stack) - 1].vals),
     closure |-> Last(stack),
     list |-> stack[Len(stack) - 1]]

step_let ==
    /\ Fetch("LET")
    /\ fetched' = Head(code)
    /\ run_let(Head(code).info, Head(code).op.id)
    /\ UNCHANGED <<out, calls, sels>> /\ compilerUnchanged

step_ld ==
    /\ Fetch("LD")
    /\ fetched' = Head(code)
    /\ run_ld(Head(code).info, Head(code).op.id)
    /\ UNCHANGED <<out, calls, sels>> /\ compilerUnchanged

step_ldc ==
    /\ Fetch("LDC")
    /\ fetched' = Head(code)
    /\ run_ldc(Head(code).info, Head(code).op.lisp)
    /\ UNCHANGED <<out, calls, sels>> /\ compilerUnchanged

step_ldf ==
    /\ Fetch("LDF")
    /\ fetched' = Head(code)
    /\ run_ldf(Head(code).info, Head(code).op.names, Head(code).op.code)
    /\ UNCHANGED <<out, calls, sels>> /\ compilerUnchanged

step_ret ==
    /\ Fetch("RET")
    /\ fetched' = Head(code)
    /\ run_ret(Head(code).info)
    /\ calls' = IF pc' = "run" THEN Front(calls) ELSE calls
    /\ UNCHANGED <<out, sels>> /\ compilerUnchanged

\* a call is made while the dump holds fewer than MaxDump frames
step_ap ==
    /\ Fetch("AP")
    /\ Len(dump) < MaxDump
    /\ fetched' = Head(code)
    /\ run_ap(Head(code).info)
    /\ calls' = IF pc' = "run" THEN Append(calls, CallRecord("AP")) ELSE calls
    /\ UNCHANGED <<out, sels>> /\ compilerUnchanged

step_rap ==
    /\ Fetch("RAP")
    /\ Len(dump) < MaxDump
    /\ fetched' = Head(code)
    /\ run_rap(Head(code).info)
    /\ calls' = IF pc' = "run" THEN Append(calls, CallRecord("RAP")) ELSE calls
    /\ UNCHANGED <<out, sels>> /\ compilerUnchanged

step_args ==
    /\ Fetch("ARGS")
    /\ fetched' = Head(code)
    /\ run_args(Head(code).info, Head(code).op.n)
    /\ UNCHANGED <<out, calls, sels>> /\ compilerUnchanged

step_puts ==
    /\ Fetch("PUTS")
    /\ fetched' = Head(code)
    /\ run_puts(Head(code).info)
    /\ UNCHANGED <<calls, sels>> /\ compilerUnchanged

step_sel ==
    /\ Fetch("SEL")
    /\ fetched' = Head(code)
    /\ run_sel(Head(code).info, Head(code).op.t, Head(code).op.f)
    /\ sels' = IF pc' = "run" THEN sels + 1 ELSE sels
    /\ UNCHANGED <<out, calls>> /\ compilerUnchanged

step_join ==
    /\ Fetch("JOIN")
    /\ fetched' = Head(code)
    /\ run_join(Head(code).info)
    /\ sels' = IF pc' = "run" THEN sels - 1 ELSE sels
    /\ UNCHANGED <<out, calls>> /\ compilerUnchanged

step_eq ==
    /\ Fetch("EQ")
    /\ fetched' = Head(code)
    /\ run_eq(Head(code).info)
    /\ UNCHANGED <<out, calls, sels>> /\ compilerUnchanged

step_add ==
    /\ Fetch("ADD")
    /\ fetched' = Head(code)
    /\ run_add(Head(code).info)
    /\ UNCHANGED <<out, calls, sels>> /\ compilerUnchanged

step_sub ==
    /\ Fetch("SUB")
    /\ fetched' = Head(code)
    /\ run_sub(Head(code).info)
    /\ UNCHANGED <<out, calls, sels>> /\ compilerUnchanged

step_cons ==
    /\ Fetch("CONS")
    /\ fetched' = Head(code)
    /\ run_cons(Head(code).info)
    /\ UNCHANGED <<out, calls, sels>> /\ compilerUnchanged

step_car ==
    /\ Fetch("CAR")
    /\ fetched' = Head(code)
    /\ run_car(Head(code).info)
    /\ UNCHANGED <<out, calls, sels>> /\ compilerUnchanged

step_cdr ==
    /\ Fetch("CDR")
    /\ fetched' = Head(code)
    /\ run_cdr(Head(code).info)
    /\ UNCHANGED <<out, calls, sels>> /\ compilerUnchanged

\* run_ found the code exhausted and returned Ok(()):
\* return Ok(self.stack.last().unwrap().clone())
run ==
    /\ pc = "run"
    /\ Len(code) = 0
    /\ IF Len(stack) = 0
       THEN Panics("unwrap on a None value", stack)
       ELSE /\ pc' = "done"
            /\ result' = Ok(Last(stack))
            /\ UNCHANGED <<stack, env, code, dump>>
    /\ UNCHANGED <<fetched, out, calls, sels>> /\ compilerUnchanged

\* SECD::new(c), followed by the call of run
SECD_new(c) ==
    /\ stack' = <<>>
    /\ env' = EmptyEnv
    /\ code' = c
    /\ dump' = <<>>
    /\ pc' = "run"
    /\ UNCHANGED <<result, fetched, out, calls, sels>>

(***************************************************************************)
(* Hand-written code given to SECD::new: load up to MaxStack constants,    *)
(* then execute one instruction, then possibly one more.                   *)
(***************************************************************************)
\* the instructions ops at the positions 1, 2, ... of line 0
Raw(ops) == [i \in 1..Len(ops) |-> CodeOPInfo(<<0, i>>, ops[i])]

\* closures of one and of two parameters, and Lists of one and of two values
K1 == Closure(<<"x">>, Raw(<<LD("x"), RET>>), EmptyEnv)
K2 == Closure(<<"x", "y">>, Raw(<<LD("y"), RET>>), EmptyEnv)
L1 == List(<<LInt(1)>>)
L2 == List(<<LInt(1), LInt(2)>>)

RawVals == {LInt(1), LInt(2), Nil, True, False, Cons(LInt(1), LInt(2)), L1, L2, K1, K2}

RECURSIVE SeqsUpTo(_, _)
SeqsUpTo(S, n) ==
    IF n = 0 THEN {<<>>}
    ELSE LET shorter == SeqsUpTo(S, n - 1)
         IN  shorter \cup {Append(q, v) : q \in {r \in shorter : Len(r) = n - 1}, v \in S}

RawBranchT == Raw(<<LDC(LInt(1)), JOIN>>)
RawBranchF == Raw(<<LDC(LInt(2)), JOIN>>)

\* the instructions that redirect the code: they are also tried with code left after them
RawJumps == {AP, RAP, SEL(RawBranchT, RawBranchF)}

RawOps ==
    {LET_("x"), LD("x"), LDF(<<"x">>, Raw(<<LD("x"), RET>>)), RET, PUTS, JOIN,
     EQ, ADD, SUB, CONS, CAR, CDR}
    \cup RawJumps
    \cup {ARGS(n) : n \in 0..(MaxStack + 1)}

\* code that meets a frame of the other kind: a RET inside a SEL branch and a
\* JOIN inside a closure body
RawFrameMismatch ==
    {Raw(<<LDC(False), LDC(True), SEL(Raw(<<LDC(LInt(1)), RET>>), RawBranchF)>>),
     Raw(<<LDC(False), LDC(L1), LDC(Closure(<<"x">>, Raw(<<JOIN>>), EmptyEnv)), AP>>)}

RawPrograms ==
    LET pushes == {[i \in 1..Len(vs) |-> LDC(vs[i])] : vs \in SeqsUpTo(RawVals, MaxStack)}
    IN  {Raw(Append(p, op)) : p \in pushes, op \in RawOps}
        \cup {Raw(p \o <<op, PUTS>>) : p \in pushes, op \in RawJumps}
        \cup RawFrameMismatch
        \cup {<<>>}

(***************************************************************************)
(* The ASTs given to Compiler::compile.  The parser is not part of the     *)
(* program: a tree is written without positions and Place gives every node *)
(* its own position, line 1 and the node's number in reading order.        *)
(***************************************************************************)
I(n) == AST(SInt(n), <<0, 0>>)
A(id) == AST(Atom(id), <<0, 0>>)
L(ls) == AST(SList(ls), <<0, 0>>)

RECURSIVE Size(_)
Size(t) ==
    IF t.sexpr.tag # "List" THEN 1
    ELSE LET RECURSIVE sum(_)
             sum(ls) == IF ls = <<>> THEN 0 ELSE Size(Head(ls)) + sum(Tail(ls))
         IN  1 + sum(t.sexpr.ls)

RECURSIVE Place(_, _)
RECURSIVE PlaceAll(_, _)
Place(t, n) ==
    IF t.sexpr.tag # "List" THEN AST(t.sexpr, <<1, n>>)
    ELSE AST(SList(PlaceAll(t.sexpr.ls, n + 1)), <<1, n>>)
PlaceAll(ls, n) ==
    IF ls = <<>> THEN <<>>
    ELSE <<Place(Head(ls), n)>> \o PlaceAll(Tail(ls), n + Size(Head(ls)))

Parsed(t) == Place(t, 1)

\* (+ l r) and (- l r) on integer literals
IntLits == {0, 1, 2, 5}
ArithForm(op, l, r) == L(<<A(op), I(l), I(r)>>)
ArithForms == {ArithForm(op, l, r) : op \in {"+", "-"}, l \in IntLits, r \in IntLits}

\* closed expressions that build data, and the value each denotes
DataExprs ==
    {I(1), I(2), A("nil"), A("true"), A("false"),
     L(<<A("cons"), I(1), I(2)>>),
     L(<<A("cons"), I(2), I(1)>>),
     L(<<A("cons"), I(1), L(<<A("cons"), I(2), A("nil")>>)>>),
     L(<<A("cons"), I(1), L(<<A("cons"), I(1), A("nil")>>)>>)}
RECURSIVE Denotes(_)
Denotes(e) ==
    CASE e.sexpr.tag = "Int" -> LInt(e.sexpr.n)
      [] e.sexpr.tag = "Atom" ->
           (CASE e.sexpr.id = "nil" -> Nil
              [] e.sexpr.id = "true" -> True
              [] e.sexpr.id = "false" -> False)
      [] e.sexpr.tag = "List" -> Cons(Denotes(e.sexpr.ls[2]), Denotes(e.sexpr.ls[3]))

Identity == L(<<A("lambda"), L(<<A("x")>>), A("x")>>)

\* (car (cons x y)), (cdr (cons x y)), and car and cdr of anything
PairForm(sel, x, y) == L(<<A(sel), L(<<A("cons"), x, y>>)>>)
PairForms == {PairForm(sel, x, y) : sel \in {"car", "cdr"}, x \in DataExprs, y \in DataExprs}
SelectorForm(sel, e) == L(<<A(sel), e>>)
SelectorForms == {SelectorForm(sel, e) : sel \in {"car", "cdr"}, e \in DataExprs \cup {Identity}}

\* (eq e1 e2)
EqForm(e1, e2) == L(<<A("eq"), e1, e2>>)
EqForms == {EqForm(e1, e2) : e1 \in DataExprs, e2 \in DataExprs}

\* (if c 1 2)
IfForm(c) == L(<<A("if"), c, I(1), I(2)>>)
IfForms == {IfForm(c) : c \in DataExprs \cup {Identity, L(<<A("eq"), I(1), I(1)>>)}}

\* an application of a three-parameter lambda, called as a nested-list head
\* or by a let-bound name, with a value below it on the stack
ArgLits == {I(1), I(2), A("nil")}
ParamBodies ==
    {A("a"), A("b"), A("c"),
     L(<<A("cons"), A("a"), L(<<A("cons"), A("b"), A("c")>>)>>)}
Lambda3(body) == L(<<A("lambda"), L(<<A("a"), A("b"), A("c")>>), body>>)
AppForm(body, x, y, z) == L(<<A("cons"), I(5), L(<<Lambda3(body), x, y, z>>)>>)
NamedAppForm(body, x, y, z) ==
    L(<<A("let"), A("f"), Lambda3(body), L(<<A("cons"), I(5), L(<<A("f"), x, y, z>>)>>)>>)
AppForms ==
    {AppForm(body, x, y, z) : body \in ParamBodies, x \in ArgLits, y \in ArgLits, z \in ArgLits}
    \cup {NamedAppForm(body, x, y, z) :
            body \in ParamBodies, x \in ArgLits, y \in ArgLits, z \in ArgLits}

\* calls made with values on the stack and bindings in the environment, whose
\* bodies bind, branch and call again
CallBodies ==
    {A("p"),
     L(<<A("let"), A("v"), I(9), A("p")>>),
     L(<<A("let"), A("w"), I(2), L(<<A("if"), L(<<A("eq"), A("p"), I(1)>>), A("v"), A("w")>>)>>),
     L(<<A("puts"), L(<<L(<<A("lambda"), L(<<A("q")>>), L(<<A("cons"), A("q"), A("p")>>)>>), I(0)>>)>>)}
CallForm(e1, body, e2) ==
    L(<<A("let"), A("v"), e1,
        L(<<A("cons"), A("v"),
            L(<<A("cons"), L(<<L(<<A("lambda"), L(<<A("p")>>), body>>), e2>>), A("v")>>)>>)>>)
CallForms == {CallForm(e1, body, e2) : e1 \in ArgLits, body \in CallBodies, e2 \in ArgLits}

\* let: a single binding, a binding that shadows an enclosing one, and code
\* of the same unit that runs after the let
LetLits == {I(1), I(2), A("nil")}
LetBodies ==
    {A("x"),
     L(<<A("cons"), A("x"), A("x")>>),
     L(<<A("if"), A("true"), A("x"), I(0)>>),
     L(<<A("car"), L(<<A("cons"), A("x"), I(0)>>)>>)}
\* the value of a body of LetBodies when x is bound to v
Plug(body, v) ==
    IF body = L(<<A("cons"), A("x"), A("x")>>) THEN Cons(v, v) ELSE v
LetForm(e1, body) == L(<<A("let"), A("x"), e1, body>>)
ShadowForm(e0, e1, body) == L(<<A("let"), A("x"), e0, LetForm(e1, body)>>)
AfterForm(e1, body) == L(<<A("cons"), LetForm(e1, body), A("x")>>)
ShadowAfterForm(e0, e1, body) == L(<<A("let"), A("x"), e0, AfterForm(e1, body)>>)
LetForms ==
    {LetForm(e1, body) : e1 \in LetLits, body \in LetBodies}
    \cup {ShadowForm(e0, e1, body) : e0 \in LetLits, e1 \in LetLits, body \in LetBodies}
    \cup {AfterForm(e1, body) : e1 \in LetLits, body \in LetBodies}
    \cup {ShadowAfterForm(e0, e1, body) : e0 \in LetLits, e1 \in LetLits, body \in LetBodies}

\* letrec: (letrec f (lambda (n) (if (eq n 0) base (op n (f (- n 1))))) (f N)),
\* also with the operands of op exchanged, and the factorial over a
\* multiplication that is itself a letrec over +
RecSteps ==
    {<<"+", I(0), LInt(0)>>,
     <<"+", I(1), LInt(1)>>,
     <<"-", I(0), LInt(0)>>,
     <<"-", L(<<A("car"), L(<<A("cons"), I(1), I(2)>>)>>), LInt(1)>>,
     <<"cons", I(0), LInt(0)>>,
     <<"cons", A("nil"), Nil>>,
     <<"add", L(<<A("cdr"), L(<<A("cons"), I(1), I(2)>>)>>), LInt(2)>>,
     <<"add", L(<<A("puts"), I(1)>>), LInt(1)>>}
\* op is +, - or cons, or add, a function bound by an enclosing let
RecForm(N, op, base, swapped) ==
    LET inner == L(<<A("f"), L(<<A("-"), A("n"), I(1)>>)>>)
        step == IF swapped THEN L(<<A(op), inner, A("n")>>) ELSE L(<<A(op), A("n"), inner>>)
        rec == L(<<A("letrec"), A("f"),
                   L(<<A("lambda"), L(<<A("n")>>),
                       L(<<A("if"), L(<<A("eq"), A("n"), I(0)>>), base, step>>)>>),
                   L(<<A("f"), I(N)>>)>>)
    IN  IF op = "add"
        THEN L(<<A("let"), A("add"),
                 L(<<A("lambda"), L(<<A("a"), A("b")>>), L(<<A("+"), A("a"), A("b")>>)>>),
                 rec>>)
        ELSE rec
RecForms ==
    {RecForm(N, q[1], q[2], sw) : N \in 0..MaxN, q \in RecSteps, sw \in BOOLEAN}
FactForm(k) ==
    L(<<A("letrec"), A("mul"),
        L(<<A("lambda"), L(<<A("a"), A("b")>>),
            L(<<A("if"), L(<<A("eq"), A("b"), I(0)>>), I(0),
                L(<<A("+"), A("a"), L(<<A("mul"), A("a"), L(<<A("-"), A("b"), I(1)>>)>>)>>)>>)>>),
        L(<<A("letrec"), A("fact"),
            L(<<A("lambda"), L(<<A("n")>>),
                L(<<A("if"), L(<<A("eq"), A("n"), I(0)>>), I(1),
                    L(<<A("mul"), A("n"), L(<<A("fact"), L(<<A("-"), A("n"), I(1)>>)>>)>>)>>)>>),
            L(<<A("fact"), I(k)>>)>>)>>)
FactArgs == {0, 1, 3, 5}
FactForms == {FactForm(k) : k \in FactArgs}

\* a function whose body reads y, created before the defining scope rebinds
\* y and called after it: alone, with y unbound at its creation, and with a
\* let, an AP, a RAP and their RETs run between the creation and the call
SnapFun == L(<<A("lambda"), L(<<A("a")>>), A("y")>>)
SnapForm(e0, e1) ==
    L(<<A("let"), A("y"), e0,
        L(<<A("let"), A("f"), SnapFun,
            L(<<A("let"), A("y"), e1,
                L(<<A("cons"), L(<<A("f"), I(0)>>), A("y")>>)>>)>>)>>)
SnapUnboundForm(e1) ==
    L(<<A("let"), A("f"), SnapFun,
        L(<<A("let"), A("y"), e1, L(<<A("f"), I(0)>>)>>)>>)
SnapBusyForm(e0, e1) ==
    L(<<A("let"), A("y"), e0,
        L(<<A("let"), A("f"), SnapFun,
            L(<<A("let"), A("y"), e1,
                L(<<A("letrec"), A("g"), L(<<A("lambda"), L(<<A("y")>>), A("y")>>),
                    L(<<A("cons"), L(<<A("g"), I(5)>>),
                        L(<<A("cons"), L(<<L(<<A("lambda"), L(<<A("y")>>), A("y")>>), I(0)>>),
                            L(<<A("cons"), L(<<A("f"), I(0)>>), A("y")>>)>>)>>)>>)>>)>>)>>)
SnapForms ==
    {SnapForm(e0, e1) : e0 \in LetLits, e1 \in LetLits}
    \cup {SnapUnboundForm(e1) : e1 \in LetLits}
    \cup {SnapBusyForm(e0, e1) : e0 \in LetLits, e1 \in LetLits}

\* a program that is a single literal, symbol or empty list
LeafInts == {-1, 0, 1, 5}
LeafSymbols == {"nil", "true", "false", "x", "f", "lambda", "let", "+"}
LeafForms == {I(n) : n \in LeafInts} \cup {A(id) : id \in LeafSymbols} \cup {L(<<>>)}

\* applications by every kind of head: a let-bound and a letrec-bound name,
\* with no, one and two arguments, a lambda, an application, the empty list
\* and a reserved name
HeadForms ==
    LET id == L(<<A("lambda"), L(<<A("x")>>), A("x")>>)
        k0 == L(<<A("lambda"), L(<<>>), I(1)>>)
        k2 == L(<<A("lambda"), L(<<A("x"), A("y")>>), A("y")>>)
    IN  {L(<<A(kw), A("f"), k0, L(<<A("f")>>)>>) : kw \in {"let", "letrec"}}
        \cup {L(<<A(kw), A("f"), id, L(<<A("f"), I(1)>>)>>) : kw \in {"let", "letrec"}}
        \cup {L(<<A(kw), A("f"), k2, L(<<A("f"), I(1), L(<<A("f"), I(2), I(5)>>)>>)>>) :
                kw \in {"let", "letrec"}}
        \cup {L(<<A(kw), A("f"), L(<<A("lambda"), L(<<A("x")>>), id>>),
                  L(<<L(<<A("f"), I(1)>>), I(2)>>)>>) : kw \in {"let", "letrec"}}
        \cup {L(<<id, I(1)>>), L(<<k0>>), L(<<L(<<>>), I(1)>>), L(<<A("nil"), I(1)>>),
              L(<<A("g"), I(1), A("x")>>)}

\* calls through RAP whose callee reads a binding only the caller has, binds
\* names the caller reads after the return, and has a parameter or a
\* captured binding of a name the caller has bound too
RapReadsCaller(e) ==
    L(<<A("letrec"), A("f"), L(<<A("lambda"), L(<<A("n")>>), A("z")>>),
        L(<<A("let"), A("z"), e, L(<<A("f"), I(1)>>)>>)>>)
RapLeaves(id) ==
    L(<<A("letrec"), A("f"),
        L(<<A("lambda"), L(<<A("n")>>), L(<<A("let"), A("w"), I(5), A("n")>>)>>),
        L(<<A("cons"), L(<<A("f"), I(1)>>), A(id)>>)>>)
RapParam(e) ==
    L(<<A("letrec"), A("f"), L(<<A("lambda"), L(<<A("z")>>), A("z")>>),
        L(<<A("let"), A("z"), e, L(<<A("cons"), L(<<A("f"), I(1)>>), A("z")>>)>>)>>)
RapCaptured(e0, e1) ==
    L(<<A("let"), A("z"), e0,
        L(<<A("letrec"), A("f"), L(<<A("lambda"), L(<<A("n")>>), A("z")>>),
            L(<<A("let"), A("z"), e1, L(<<A("cons"), L(<<A("f"), I(0)>>), A("z")>>)>>)>>)>>)
RapForms ==
    {RapReadsCaller(e) : e \in LetLits}
    \cup {RapLeaves(id) : id \in {"n", "w"}}
    \cup {RapParam(e) : e \in LetLits}
    \cup {RapCaptured(e0, e1) : e0 \in LetLits, e1 \in LetLits}

\* a conditional with code of the same unit left to run after it
IfThenForm(c) == L(<<A("cons"), IfForm(c), I(3)>>)
IfThenForms == {IfThenForm(c) : c \in {A("true"), A("false"), I(1)}}

\* a function that calls itself with the argument it was given
LoopForm(e) ==
    L(<<A("letrec"), A("f"), L(<<A("lambda"), L(<<A("n")>>), L(<<A("f"), A("n")>>)>>),
        L(<<A("f"), e>>)>>)
LoopForms == {LoopForm(e) : e \in {I(1), A("nil")}}

\* special forms with every number of arguments from none to one more than
\* any form takes, with binders and parameters that are no symbols, lists
\* headed by an integer, and malformed forms inside well-formed ones
MaxArgs == 4
Keywords == {"lambda", "let", "letrec", "puts", "if", "eq", "+", "-", "cons", "car", "cdr"}
\* arguments that are right for kw as far as they go, then 1, 1, ...
ShapeArgs(kw, n) ==
    LET good == CASE kw = "lambda" -> <<L(<<A("x")>>), A("x")>>
                  [] kw \in {"let", "letrec"} -> <<A("x"), I(1), A("x")>>
                  [] kw = "if" -> <<A("true"), I(1), I(2)>>
                  [] OTHER -> <<I(1), I(2)>>
    IN  [i \in 1..n |-> IF i <= Len(good) THEN good[i] ELSE I(1)]
ArityForms == {L(<<A(kw)>> \o ShapeArgs(kw, n)) : kw \in Keywords, n \in 0..MaxArgs}
NotSymbols == {I(1), L(<<>>), L(<<A("x")>>)}
BinderForms ==
    {L(<<A(kw), b, I(1), I(2)>>) : kw \in {"let", "letrec"}, b \in NotSymbols}
ParamForms ==
    {L(<<A("lambda"), ps, I(1)>>) :
        ps \in {I(1), A("x"), L(<<>>), L(<<A("x"), A("y")>>), L(<<A("x"), I(1)>>),
                L(<<I(1), A("x")>>), L(<<L(<<A("x")>>)>>), L(<<L(<<>>)>>)}}
IntHeadForms == {L(<<I(1)>>), L(<<I(1), I(2)>>), L(<<I(0), A("x"), A("y")>>)}
Malformed == {L(<<A("car")>>), L(<<A("let"), I(1), I(1), I(2)>>), L(<<I(1), I(2)>>),
              L(<<A("lambda"), L(<<I(1)>>), I(1)>>)}
NestedForms ==
    UNION {{L(<<A("cons"), m, I(1)>>),
            L(<<A("cons"), I(1), m>>),
            L(<<A("if"), A("true"), I(1), m>>),
            L(<<A("if"), A("true"), m, I(1)>>),
            L(<<A("lambda"), L(<<A("x")>>), m>>),
            L(<<A("let"), A("x"), m, I(1)>>),
            L(<<A("letrec"), A("x"), I(1), m>>),
            L(<<A("f"), I(1), m>>),
            L(<<L(<<A("lambda"), L(<<A("x")>>), m>>), I(1)>>),
            L(<<A("puts"), m>>)} : m \in Malformed \cup {L(<<>>), L(<<A("f")>>)}}
ShapeForms ==
    ArityForms \cup BinderForms \cup ParamForms \cup IntHeadForms \cup NestedForms

\* a let that rebinds f inside the scope of a let or a letrec of f, with
\* calls of f in its expression and in its body; the outer f is the
\* identity or a function that calls itself
RebindIdent == L(<<A("lambda"), L(<<A("n")>>), A("n")>>)
RebindCountdown ==
    L(<<A("lambda"), L(<<A("n")>>),
        L(<<A("if"), L(<<A("eq"), A("n"), I(0)>>), I(0),
            L(<<A("f"), L(<<A("-"), A("n"), I(1)>>)>>)>>)>>)
RebindExprs ==
    {I(1), L(<<A("f"), I(0)>>), L(<<A("f"), I(1)>>),
     L(<<A("cons"), L(<<A("f"), I(1)>>), I(2)>>),
     L(<<A("lambda"), L(<<A("x")>>), L(<<A("f"), A("x")>>)>>)}
RebindBodies == {A("f"), L(<<A("f"), I(1)>>), L(<<A("cons"), L(<<A("f"), I(0)>>), A("f")>>)}
RebindForm(kw, fun, expr, body) ==
    L(<<A(kw), A("f"), fun, L(<<A("let"), A("f"), expr, body>>)>>)
RebindForms ==
    {RebindForm(kw, fun, expr, body) :
        kw \in {"let", "letrec"}, fun \in {RebindIdent, RebindCountdown},
        expr \in RebindExprs, body \in RebindBodies}

\* a let or a letrec of f, or nothing but the call (f 1), inside a lambda
\* body, a then-branch or an else-branch, or with no sub-compiler around
\* it, followed by calls of f in the sibling branch and in the enclosing
\* unit; f is bound outside by a let or a letrec
NestedBinding(kw) ==
    IF kw = "none" THEN L(<<A("f"), I(1)>>)
    ELSE L(<<A(kw), A("f"), RebindIdent, L(<<A("f"), I(1)>>)>>)
NestInLambda(outer, inner) ==
    L(<<A(outer), A("f"), RebindIdent,
        L(<<A("cons"),
            L(<<L(<<A("lambda"), L(<<A("x")>>), NestedBinding(inner)>>), I(0)>>),
            L(<<A("f"), I(2)>>)>>)>>)
NestInThen(outer, inner, c) ==
    L(<<A(outer), A("f"), RebindIdent,
        L(<<A("cons"),
            L(<<A("if"), c, NestedBinding(inner), L(<<A("f"), I(2)>>)>>),
            L(<<A("f"), I(5)>>)>>)>>)
NestInElse(outer, inner, c) ==
    L(<<A(outer), A("f"), RebindIdent,
        L(<<A("cons"),
            L(<<A("if"), c, L(<<A("f"), I(2)>>), NestedBinding(inner)>>),
            L(<<A("f"), I(5)>>)>>)>>)
NestInUnit(outer, inner) ==
    L(<<A(outer), A("f"), RebindIdent,
        L(<<A("cons"), NestedBinding(inner), L(<<A("f"), I(2)>>)>>)>>)
NestForms ==
    UNION {{NestInLambda(o, i), NestInUnit(o, i)} \cup
           {NestInThen(o, i, c) : c \in {A("true"), A("false")}} \cup
           {NestInElse(o, i, c) : c \in {A("true"), A("false")}} :
           o \in {"let", "letrec"}, i \in {"let", "letrec", "none"}}

\* a function f whose body calls f, bound by a let or a letrec and called
\* by its name, through a lambda parameter and through a nested-list head,
\* and the same with another f bound before the definition
SelfArgs == {0, 1, 2}
SelfConstant == L(<<A("lambda"), L(<<A("n")>>), I(5)>>)
SelfByName(kw, k) == L(<<A(kw), A("f"), RebindCountdown, L(<<A("f"), I(k)>>)>>)
SelfByParam(kw, k) ==
    L(<<A(kw), A("f"), RebindCountdown,
        L(<<L(<<A("lambda"), L(<<A("g")>>), L(<<A("g"), I(k)>>)>>), A("f")>>)>>)
SelfByListHead(kw, k) ==
    L(<<A(kw), A("f"), RebindCountdown,
        L(<<L(<<A("car"), L(<<A("cons"), A("f"), I(1)>>)>>), I(k)>>)>>)
SelfBoundBefore(kw, k) ==
    L(<<A("let"), A("f"), SelfConstant, SelfByParam(kw, k)>>)
SelfForms ==
    {form : form \in UNION {{SelfByName(kw, k), SelfByParam(kw, k), SelfByListHead(kw, k),
                             SelfBoundBefore(kw, k)} :
                            kw \in {"let", "letrec"}, k \in SelfArgs}}

\* a let of x inside a branch of an if, read after the if, with and
\* without an x bound before, at top level and inside a function body; and
\* a call whose callee binds a parameter n, an x and a y, read after the call
LifeConds == {A("true"), A("false")}
LifeBranch(c, e) ==
    L(<<A("cons"), L(<<A("if"), c, L(<<A("let"), A("x"), e, A("x")>>), I(0)>>), A("x")>>)
LifeBranchOver(c, e) == L(<<A("let"), A("x"), I(5), LifeBranch(c, e)>>)
LifeBranchInBody(c, e) ==
    L(<<L(<<A("lambda"), L(<<A("n")>>), LifeBranch(A("n"), e)>>), c>>)
LifeCall(id) ==
    L(<<A("let"), A("x"), I(1),
        L(<<A("cons"),
            L(<<L(<<A("lambda"), L(<<A("n")>>),
                    L(<<A("let"), A("x"), I(2), L(<<A("let"), A("y"), I(5), A("n")>>)>>)>>),
                I(0)>>),
            A(id)>>)>>)
LifeForms ==
    UNION {{LifeBranch(c, e), LifeBranchOver(c, e), LifeBranchInBody(c, e)} :
           c \in LifeConds, e \in LetLits}
    \cup {LifeCall(id) : id \in {"x", "y", "n"}}

Trees ==
    ArithForms \cup PairForms \cup SelectorForms \cup EqForms \cup IfForms
    \cup AppForms \cup CallForms \cup LetForms \cup RecForms \cup FactForms
    \cup SnapForms \cup LeafForms \cup ShapeForms \cup LoopForms
    \cup IfThenForms \cup HeadForms \cup RapForms \cup RebindForms \cup NestForms
    \cup SelfForms \cup LifeForms
Inputs == {Parsed(t) : t \in Trees}
RecInputs == {Parsed(t) : t \in RecForms \cup FactForms}

(***************************************************************************)
(* The caller: Compiler::new, one compile, SECD::new and run.              *)
(***************************************************************************)
NoAst == [none |-> TRUE]
NoInstruction == [info |-> <<0, 0>>, op |-> [name |-> "none"]]

Init ==
    /\ ast = NoAst
    /\ ccode = Compiler_new.code
    /\ letrec_id_list = Compiler_new.letrec_id_list
    /\ cres = None
    /\ stack = <<>>
    /\ env = EmptyEnv
    /\ code = <<>>
    /\ dump = <<>>
    /\ pc = "start"
    /\ result = None
    /\ fetched = NoInstruction
    /\ out = <<>>
    /\ calls = <<>>
    /\ sels = 0
    /\ before = <<>>

\* compiler.compile(a) for an a of S
compile_from(S) ==
    /\ pc = "start"
    /\ cres = None
    /\ \E a \in S :
         LET r == compile([code |-> ccode, letrec_id_list |-> letrec_id_list], a)
         IN  /\ ast' = a
             /\ ccode' = r.self.code
             /\ letrec_id_list' = r.self.letrec_id_list
             /\ cres' = r.res
             /\ before' = Append(before, [ast |-> a, code |-> ccode,
                                          letrec_id_list |-> letrec_id_list])
    /\ UNCHANGED <<stack, env, code, dump, pc, result, fetched, out, calls, sels>>

call_compile == compile_from(Inputs)

call_compile_rec == compile_from(RecInputs)

\* SECD::new(code).run() on the code compile returned
run_compiled ==
    /\ pc = "start"
    /\ cres.kind = "Ok"
    /\ SECD_new(cres.val)
    /\ compilerUnchanged

\* SECD::new(c).run() on hand-written code
run_raw ==
    /\ pc = "start"
    /\ cres = None
    /\ \E c \in RawPrograms : SECD_new(c)
    /\ compilerUnchanged

run_ ==
    \/ step_let
    \/ step_ld
    \/ step_ldc
    \/ step_ldf
    \/ step_ret
    \/ step_ap
    \/ step_rap
    \/ step_args
    \/ step_puts
    \/ step_sel
    \/ step_join
    \/ step_eq
    \/ step_add
    \/ step_sub
    \/ step_cons
    \/ step_car
    \/ step_cdr

Next ==
    \/ call_compile
    \/ run_compiled
    \/ run_raw
    \/ run_
    \/ run

Spec == Init /\ [][Next]_vars

\* The letrec programs alone.  The caller runs what it compiled, and run is
\* a loop of one thread: it keeps taking steps until it returns.
RecNext ==
    \/ call_compile_rec
    \/ run_compiled
    \/ run_
    \/ run

RecSpec == Init /\ [][RecNext]_vars /\ WF_vars(run_compiled \/ run_ \/ run)

\* One Compiler given to compile again and again: compile takes &mut self
\* and the caller keeps the Compiler.  The trees are a literal, a symbol, an
\* addition, a letrec and a let that leave f tracked and untracked, calls of
\* f and of g, and trees that fail before and after they emit instructions
SeqTrees ==
    {I(1), A("x"), L(<<A("+"), I(1), I(2)>>),
     L(<<A("letrec"), A("f"), RebindIdent, L(<<A("f"), I(1)>>)>>),
     L(<<A("let"), A("f"), RebindIdent, L(<<A("f"), I(1)>>)>>),
     L(<<A("letrec"), A("g"), RebindIdent, I(1)>>),
     L(<<A("f"), I(2)>>),
     L(<<A("cons"), L(<<A("g"), I(1)>>), L(<<A("f"), I(2)>>)>>),
     L(<<A("lambda"), L(<<A("x")>>), L(<<A("f"), A("x")>>)>>),
     L(<<A("car")>>),
     L(<<A("+"), I(1), L(<<A("car")>>)>>),
     L(<<A("cons"), L(<<A("f"), I(1)>>), L(<<A("car"), I(1), I(2)>>)>>),
     L(<<A("letrec"), A("f"), L(<<A("car")>>), I(1)>>),
     L(<<A("if"), A("true"), L(<<A("car")>>), I(2)>>)}
SeqInputs == {Parsed(t) : t \in SeqTrees}

\* compiler.compile(a) on the Compiler as the calls before have left it
compile_next ==
    /\ pc = "start"
    /\ Len(before) < MaxCompiles
    /\ \E a \in SeqInputs :
         LET r == compile([code |-> ccode, letrec_id_list |-> letrec_id_list], a)
         IN  /\ ast' = a
             /\ ccode' = r.self.code
             /\ letrec_id_list' = r.self.letrec_id_list
             /\ cres' = r.res
             /\ before' = Append(before, [ast |-> a, code |-> ccode,
                                          letrec_id_list |-> letrec_id_list])
    /\ UNCHANGED <<stack, env, code, dump, pc, result, fetched, out, calls, sels>>

SeqNext == compile_next

SeqSpec == Init /\ [][SeqNext]_vars

(***************************************************************************)
(* The claims.                                                             *)
(***************************************************************************)

\* C1: AP/RET frame symmetry.  When the RET of a closure applied by AP to a
\* List of exactly as many values as it has parameters executes, the stack,
\* the environment and the code are again what AP left behind once it had
\* popped the closure and the List, with the callee's top of stack pushed on
\* that stack, and the dump is as deep as it was before the call.
C1_FrameSymmetry ==
    [][(/\ Fetch("RET")
        /\ pc' = "run"
        /\ calls # <<>>
        /\ Last(calls).kind = "AP"
        /\ Last(calls).k = Last(calls).n)
       => (/\ stack' = Append(Last(calls).stack, Last(stack))
           /\ env' = Last(calls).env
           /\ code' = Last(calls).code
           /\ Len(dump') = Last(calls).depth
           /\ dump' = SubSeq(dump, 1, Last(calls).depth))]_vars

\* a RET has just returned from an AP call that was made with a value on the
\* stack, a binding in the environment and code left to run, out of a callee
\* that had bound its parameter p
C1_Witness ==
    /\ pc = "run"
    /\ fetched.op = RET
    /\ calls = <<>>
    /\ Len(stack) = 2
    /\ DOMAIN env = {"v"}
    /\ Len(code) > 0
    /\ dump = <<>>
    /\ \E e1 \in ArgLits, body \in CallBodies, e2 \in ArgLits :
           ast = Parsed(CallForm(e1, body, e2))

\* the value of the mathematical recursion f(0) = base, f(N) = op(N, f(N - 1))
\* (or op(f(N - 1), N) when the operands are exchanged)
Apply2(op, a, b) ==
    CASE op \in {"+", "add"} -> LInt(a.n + b.n)
      [] op = "-" -> LInt(a.n - b.n)
      [] op = "cons" -> Cons(a, b)
RECURSIVE RecValue(_, _, _, _)
RecValue(N, op, base, swapped) ==
    IF N = 0 THEN base
    ELSE IF swapped THEN Apply2(op, RecValue(N - 1, op, base, swapped), LInt(N))
    ELSE Apply2(op, LInt(N), RecValue(N - 1, op, base, swapped))
RECURSIVE Factorial(_)
Factorial(k) == IF k = 0 THEN 1 ELSE k * Factorial(k - 1)
\* every letrec program with the value it must return
RecTable ==
    {[prog |-> Parsed(RecForm(N, q[1], q[2], sw)), val |-> RecValue(N, q[1], q[3], sw)] :
        N \in 0..MaxN, q \in RecSteps, sw \in BOOLEAN}
    \cup {[prog |-> Parsed(FactForm(k)), val |-> LInt(Factorial(k))] : k \in FactArgs}

\* C2: a letrec-defined self-recursive function evaluates correctly.  Every
\* program (letrec f (lambda (n) (if (eq n 0) base (op n (f (- n 1))))) (f N))
\* with 0 <= N <= MaxN, and the factorial over a letrec multiplication, is
\* compiled and run to the end without error and returns the value of the
\* mathematical recursion; the factorial of 5 is Integer(120).
C2_LetrecRecursion ==
    /\ (\E e \in RecTable : e.prog = ast)
          ~> (pc = "done" /\ \E e \in RecTable : e.prog = ast /\ result = Ok(e.val))
    /\ [](ast = Parsed(FactForm(5)) /\ pc = "done" => result = Ok(LInt(120)))

\* the factorial of 5 has returned, from a run in which a recursive call was
\* made from within a recursive call
C2_Witness ==
    /\ ast = Parsed(FactForm(5))
    /\ pc = "done"
    /\ result.kind = "Ok"
    /\ result.val = LInt(120)

\* C3: SEL never coerces.  When SEL executes with a top of stack that is
\* neither True nor False, run returns the error "SEL: expected bool", no
\* frame is pushed on the dump and the code is what followed SEL; with True
\* the code becomes the then-branch and with False the else-branch, and the
\* code that followed SEL is pushed as DumpSEL.  So (if c 1 2) returns 1 for
\* a true c, 2 for a false c, and an error for any other c.
C3_SelNeverCoerces ==
    /\ [][(Fetch("SEL") /\ Len(stack) > 0)
          => IF Last(stack).tag \notin {"True", "False"}
             THEN /\ pc' = "done"
                  /\ result' = VmErr(Head(code).info, "SEL: expected bool")
                  /\ dump' = dump
                  /\ code' = Tail(code)
             ELSE /\ pc' = "run"
                  /\ result' = None
                  /\ stack' = Front(stack)
                  /\ code' = (IF Last(stack) = True THEN Head(code).op.t ELSE Head(code).op.f)
                  /\ dump' = Append(dump, DumpSEL(Tail(code)))]_vars
    /\ [](\A cond \in DataExprs :
            (ast = Parsed(IfForm(cond)) /\ pc = "done")
            => CASE Denotes(cond) = True -> result = Ok(LInt(1))
                 [] Denotes(cond) = False -> result = Ok(LInt(2))
                 [] OTHER -> result.kind = "Err" /\ result.msg = "SEL: expected bool")

\* (if (cons 1 2) 1 2) has ended in the error of SEL with an empty dump
C3_Witness ==
    /\ ast = Parsed(IfForm(L(<<A("cons"), I(1), I(2)>>)))
    /\ pc = "done"
    /\ fetched.op.name = "SEL"
    /\ result.kind = "Err"
    /\ result.msg = "SEL: expected bool"
    /\ dump = <<>>

\* the value of a body of ParamBodies when a, b, c are bound to va, vb, vc
ParamValue(body, va, vb, vc) ==
    CASE body = A("a") -> va
      [] body = A("b") -> vb
      [] body = A("c") -> vc
      [] OTHER -> Cons(va, Cons(vb, vc))

\* every application of AppForms with the value it must return
AppTable ==
    UNION {{[prog |-> Parsed(AppForm(body, x, y, z)),
             val |-> Cons(LInt(5), ParamValue(body, Denotes(x), Denotes(y), Denotes(z)))],
            [prog |-> Parsed(NamedAppForm(body, x, y, z)),
             val |-> Cons(LInt(5), ParamValue(body, Denotes(x), Denotes(y), Denotes(z)))]} :
           body \in ParamBodies, x \in ArgLits, y \in ArgLits, z \in ArgLits}

\* C4: ARGS ordering.  On a stack of at least n values ARGS(n) pops the top n
\* values and pushes one List holding them in the order they were pushed,
\* deepest first, leaving the values below untouched; so an application with
\* the arguments x y z binds the parameters a, b, c to x, y, z in that order.
C4_ArgsOrdering ==
    /\ [][(Fetch("ARGS") /\ Len(stack) >= Head(code).op.n)
          => LET n == Head(code).op.n
                 rest == Len(stack) - n
             IN  /\ pc' = "run"
                 /\ Len(stack') = rest + 1
                 /\ SubSeq(stack', 1, rest) = SubSeq(stack, 1, rest)
                 /\ Last(stack').tag = "List"
                 /\ Len(Last(stack').vals) = n
                 /\ \A i \in 1..n : Last(stack').vals[i] = stack[rest + i]]_vars
    /\ [](pc = "done" => \A e \in AppTable : e.prog = ast => result = Ok(e.val))

\* ARGS(3) has just packed the arguments 1, 2 and nil, pushed in that order
\* above the value 5, into one List
C4_Witness ==
    /\ pc = "run"
    /\ fetched.op = ARGS(3)
    /\ stack = <<LInt(5), List(<<LInt(1), LInt(2), Nil>>)>>

\* every (+ l r) and (- l r) with the value it must return
ArithTable ==
    {[prog |-> Parsed(ArithForm("+", l, r)), val |-> LInt(l + r)] : l \in IntLits, r \in IntLits}
    \cup {[prog |-> Parsed(ArithForm("-", l, r)), val |-> LInt(l - r)] :
            l \in IntLits, r \in IntLits}

\* C5: ADD/SUB operand order.  With Integer a on top of the stack and Integer
\* b beneath it, ADD replaces both by Integer(b + a) and SUB replaces both by
\* Integer(b - a); so (+ l r) returns l + r and (- l r) returns l - r:
\* (+ 1 2) is 3 and (- 5 2) is 3.
C5_OperandOrder ==
    /\ [][(/\ pc = "run" /\ Len(code) > 0 /\ Head(code).op \in {ADD, SUB}
           /\ Len(stack) >= 2
           /\ Last(stack).tag = "Int"
           /\ stack[Len(stack) - 1].tag = "Int")
          => LET a == Last(stack).n
                 b == stack[Len(stack) - 1].n
             IN  /\ pc' = "run"
                 /\ stack' = Append(SubSeq(stack, 1, Len(stack) - 2),
                                    LInt(IF Head(code).op = ADD THEN b + a ELSE b - a))]_vars
    /\ [](pc = "done" => \A e \in ArithTable : e.prog = ast => result = Ok(e.val))
    /\ [](pc = "done" /\ ast = Parsed(ArithForm("+", 1, 2)) => result = Ok(LInt(3)))
    /\ [](pc = "done" /\ ast = Parsed(ArithForm("-", 5, 2)) => result = Ok(LInt(3)))

\* (- 5 2) has returned Integer(3) from SUB
C5_Witness ==
    /\ ast = Parsed(ArithForm("-", 5, 2))
    /\ pc = "done"
    /\ fetched.op = SUB
    /\ result = Ok(LInt(3))

\* every (car (cons x y)) and (cdr (cons x y)) with the value it must return
PairTable ==
    {[prog |-> Parsed(PairForm("car", x, y)), val |-> Denotes(x)] :
        x \in DataExprs, y \in DataExprs}
    \cup {[prog |-> Parsed(PairForm("cdr", x, y)), val |-> Denotes(y)] :
            x \in DataExprs, y \in DataExprs}
\* every (car e) and (cdr e) of an e that is no pair
NotPairPrograms ==
    {Parsed(SelectorForm(sel, e)) :
        sel \in {"car", "cdr"},
        e \in {d \in DataExprs : Denotes(d).tag # "Cons"} \cup {Identity}}

\* C6: CONS/CAR/CDR round trip.  With x pushed and then y, CONS replaces
\* both by Cons(x, y); CAR replaces a pair by its first component and CDR by
\* its second, so (car (cons x y)) returns x and (cdr (cons x y)) returns y;
\* CAR and CDR on a value that is no Cons end run with an error.
C6_ConsCarCdr ==
    /\ [][(Fetch("CONS") /\ Len(stack) >= 2)
          => /\ pc' = "run"
             /\ stack' = Append(SubSeq(stack, 1, Len(stack) - 2),
                                Cons(stack[Len(stack) - 1], stack[Len(stack)]))]_vars
    /\ [][(/\ pc = "run" /\ Len(code) > 0 /\ Head(code).op \in {CAR, CDR}
           /\ Len(stack) >= 1)
          => IF Last(stack).tag = "Cons"
             THEN /\ pc' = "run"
                  /\ stack' = Append(Front(stack),
                                     IF Head(code).op = CAR THEN Last(stack).car
                                     ELSE Last(stack).cdr)
             ELSE /\ pc' = "done"
                  /\ result'.kind = "Err"
                  /\ result'.msg = (IF Head(code).op = CAR THEN "CAR: expected Cons"
                                    ELSE "CDR: expected Cons")]_vars
    /\ [](pc = "done" => \A e \in PairTable : e.prog = ast => result = Ok(e.val))
    /\ [](pc = "done" /\ ast \in NotPairPrograms => result.kind = "Err")

\* (cdr (cons 1 (cons 2 nil))) has returned the pair (2 . nil)
C6_Witness ==
    /\ ast = Parsed(PairForm("cdr", I(1), L(<<A("cons"), I(2), A("nil")>>)))
    /\ pc = "done"
    /\ fetched.op = CDR
    /\ result = Ok(Cons(LInt(2), Nil))

\* integers, booleans, Nil and the cons cells made of them
RECURSIVE IsData(_)
IsData(v) ==
    \/ v.tag \in {"Int", "Nil", "True", "False"}
    \/ v.tag = "Cons" /\ IsData(v.car) /\ IsData(v.cdr)
\* equal integers, the same boolean or Nil, cons cells with equal components
RECURSIVE StructEq(_, _)
StructEq(a, b) ==
    CASE a.tag # b.tag -> FALSE
      [] a.tag = "Int" -> a.n = b.n
      [] a.tag = "Cons" -> StructEq(a.car, b.car) /\ StructEq(a.cdr, b.cdr)
      [] OTHER -> TRUE
\* every (eq e1 e2) with the value it must return
EqTable ==
    {[prog |-> Parsed(EqForm(e1, e2)),
      val |-> IF StructEq(Denotes(e1), Denotes(e2)) THEN True ELSE False] :
        e1 \in DataExprs, e2 \in DataExprs}
EqChain == L(<<A("cons"), I(1), L(<<A("cons"), I(2), A("nil")>>)>>)
EqOtherChain == L(<<A("cons"), I(1), L(<<A("cons"), I(1), A("nil")>>)>>)

\* C7: EQ is structural.  With at least two values on the stack an EQ step
\* never ends run: it replaces the two values by exactly one of True and
\* False, True when the two are structurally equal and False when a leaf or
\* a variant differs; two cons chains built by separate cons expressions
\* with the same leaves compare equal and with a different leaf unequal.
C7_EqStructural ==
    /\ [][(Fetch("EQ") /\ Len(stack) >= 2)
          => LET a == stack[Len(stack)]
                 b == stack[Len(stack) - 1]
                 rest == SubSeq(stack, 1, Len(stack) - 2)
             IN  /\ pc' = "run"
                 /\ result' = None
                 /\ stack' \in {Append(rest, True), Append(rest, False)}
                 /\ (IsData(a) /\ IsData(b))
                      => stack' = Append(rest, IF StructEq(a, b) THEN True ELSE False)]_vars
    /\ [](pc = "done" => \A e \in EqTable : e.prog = ast => result = Ok(e.val))
    /\ [](pc = "done" /\ ast = Parsed(EqForm(EqChain, EqChain)) => result = Ok(True))
    /\ [](pc = "done" /\ ast = Parsed(EqForm(EqChain, EqOtherChain)) => result = Ok(False))

\* (eq (cons 1 (cons 2 nil)) (cons 1 (cons 1 nil))) has returned False
C7_Witness ==
    /\ ast = Parsed(EqForm(EqChain, EqOtherChain))
    /\ pc = "done"
    /\ fetched.op = EQ
    /\ result = Ok(False)

\* the let nodes of a placed tree that bind x to a literal: the value of the
\* bound expression and the positions from..to of the body
RECURSIVE LetNodes(_)
LetNodes(t) ==
    IF t.sexpr.tag # "List" THEN {}
    ELSE LET ls == t.sexpr.ls
             below == UNION {LetNodes(ls[i]) : i \in 1..Len(ls)}
         IN  IF Len(ls) = 4 /\ ls[1].sexpr = Atom("let") /\ ls[2].sexpr = Atom("x")
             THEN below \cup {[val |-> Denotes(ls[3]),
                               from |-> ls[4].info[2],
                               to |-> ls[4].info[2] + Size(ls[4]) - 1]}
             ELSE below
\* every program of LetForms with its let nodes and the value it must return
LetTable ==
    LET Entry(t, v) == [prog |-> Parsed(t), lets |-> LetNodes(Parsed(t)), val |-> v]
    IN  {Entry(LetForm(e1, body), Plug(body, Denotes(e1))) :
            e1 \in LetLits, body \in LetBodies}
        \cup {Entry(ShadowForm(e[1], e[2], body), Plug(body, Denotes(e[2]))) :
                e \in LetLits \X LetLits, body \in LetBodies}
        \cup {Entry(AfterForm(e1, body), Cons(Plug(body, Denotes(e1)), Denotes(e1))) :
                e1 \in LetLits, body \in LetBodies}
        \cup {Entry(ShadowAfterForm(e[1], e[2], body),
                    Cons(Plug(body, Denotes(e[2])), Denotes(e[2]))) :
                e \in LetLits \X LetLits, body \in LetBodies}
\* the let of x that ran last before the code at position p: the programs of
\* LetForms run in reading order, so it is the one whose body starts last
LastLet(lets, p) ==
    CHOOSE l \in lets : l.from <= p /\ \A m \in lets : m.from <= p => m.from <= l.from

C9_RunResult ==
    [][(pc = "run" /\ Len(code) = 0)
       => /\ pc' = "done"
          /\ IF Len(stack) > 0 THEN result' = Ok(Last(stack))
             ELSE result'.kind = "Err"]_vars

\* code ending in LET has been run to its end and run has panicked on the
\* empty stack
C9_Witness ==
    /\ pc = "done"
    /\ fetched.op = LET_("x")
    /\ code = <<>>
    /\ stack = <<>>
    /\ result = Panic("unwrap on a None value")

\* C10: application arity is checked.  AP and RAP with a closure of k
\* parameters on top of the stack and beneath it a List whose length is not k
\* end run with an error: no parameter is bound, no argument is dropped and
\* nothing panics.
C10_ArityChecked ==
    [][(/\ pc = "run" /\ Len(code) > 0 /\ Head(code).op \in {AP, RAP}
        /\ Len(stack) >= 2
        /\ Last(stack).tag = "Closure"
        /\ stack[Len(stack) - 1].tag = "List"
        /\ Len(Last(stack).names) # Len(stack[Len(stack) - 1].vals))
       => /\ pc' = "done"
          /\ result'.kind = "Err"
          /\ env' = env]_vars

\* an application of a one-parameter closure to a List of two values has
\* been made and run goes on in the closure's body
C10_Witness ==
    /\ pc = "run"
    /\ calls # <<>>
    /\ Last(calls).k = 1
    /\ Last(calls).n = 2
    /\ "x" \in DOMAIN env
    /\ env["x"] = LInt(1)

\* the instruction at the head of the code fails one of the preconditions
\* C11 lists, on the present stack and dump
FailsPrecondition ==
    /\ pc = "run"
    /\ Len(code) > 0
    /\ LET op == Head(code).op
           n == Len(stack)
       IN  \/ /\ op \in {ADD, SUB}
              /\ n >= 2 /\ stack[n].tag = "Int" /\ stack[n - 1].tag # "Int"
           \/ /\ op \in {CAR, CDR}
              /\ n >= 1 /\ stack[n].tag # "Cons"
           \/ /\ op.name = "SEL"
              /\ n >= 1 /\ stack[n].tag \notin {"True", "False"}
           \/ /\ op \in {AP, RAP}
              /\ \/ n >= 1 /\ stack[n].tag # "Closure"
                 \/ n >= 2 /\ stack[n].tag = "Closure" /\ stack[n - 1].tag # "List"
           \/ /\ op.name = "ARGS"
              /\ n < op.n
           \/ /\ op = RET
              /\ n >= 1 /\ Len(dump) > 0 /\ Last(dump).tag = "DumpSEL"
           \/ /\ op = JOIN
              /\ Len(dump) > 0 /\ Last(dump).tag = "DumpAP"

\* C11: preconditions are validated before acting.  An instruction that fails
\* its precondition ends run with an error and leaves the stack, the
\* environment and the dump exactly as they were before it: no operand has
\* been popped and no dump frame removed.
C11_ValidatedBeforeActing ==
    [][FailsPrecondition
       => /\ pc' = "done"
          /\ result'.kind = "Err"
          /\ stack' = stack
          /\ env' = env
          /\ dump' = dump]_vars

\* a RET inside a SEL branch has ended run with an error, and the DumpSEL
\* frame and the value RET popped are gone
C11_Witness ==
    /\ pc = "done"
    /\ fetched.op = RET
    /\ result.kind = "Err"
    /\ calls = <<>>
    /\ dump = <<>>
    /\ stack = <<False>>

\* every program of SnapForms with the result run must return
SnapTable ==
    {[prog |-> Parsed(SnapForm(e[1], e[2])),
      res |-> Ok(Cons(Denotes(e[1]), Denotes(e[2])))] : e \in LetLits \X LetLits}
    \cup {[prog |-> Parsed(SnapBusyForm(e[1], e[2])),
           res |-> Ok(Cons(LInt(5), Cons(LInt(0), Cons(Denotes(e[1]), Denotes(e[2])))))] :
            e \in LetLits \X LetLits}
\* the programs that call a function reading a y unbound at its creation
SnapUnboundPrograms == {Parsed(SnapUnboundForm(e1)) : e1 \in LetLits}

\* C12: closure environment snapshot.  LDF pushes a closure holding the
\* whole environment of that moment; AP runs the body in exactly the
\* captured bindings overwritten by the parameters, with no binding of the
\* caller; so a function called through AP reads a free identifier as it was
\* bound when the closure was created, whatever LET, AP, RAP and RET have
\* done since in the defining scope, and fails when it was unbound then.
C12_ClosureSnapshot ==
    /\ [][Fetch("LDF")
          => /\ pc' = "run"
             /\ stack' = Append(stack, Closure(Head(code).op.names, Head(code).op.code, env))
             /\ env' = env]_vars
    /\ [][(Fetch("AP") /\ pc' = "run")
          => LET closure == Last(stack)
                 params == Range(closure.names)
             IN  /\ DOMAIN env' = DOMAIN closure.env \cup params
                 /\ \A id \in DOMAIN closure.env \ params : env'[id] = closure.env[id]]_vars
    /\ [](pc = "done" => \A e \in SnapTable : e.prog = ast => result = e.res)
    /\ [](pc = "done" /\ ast \in SnapUnboundPrograms
            => result.kind = "Err" /\ result.msg = "LD: found y")

\* f, created while y was 1, has been called after y was rebound to 2 and
\* after a RAP and an AP that bound y to 5 and 0: it has returned 1
C12_Witness ==
    /\ ast = Parsed(SnapBusyForm(I(1), I(2)))
    /\ pc = "done"
    /\ result = Ok(Cons(LInt(5), Cons(LInt(0), Cons(LInt(1), LInt(2)))))

\* every program of LeafForms with the one instruction it must compile to
LeafTable ==
    {[prog |-> Parsed(I(n)), op |-> LDC(LInt(n))] : n \in LeafInts}
    \cup {[prog |-> Parsed(A("nil")), op |-> LDC(Nil)],
          [prog |-> Parsed(A("true")), op |-> LDC(True)],
          [prog |-> Parsed(A("false")), op |-> LDC(False)],
          [prog |-> Parsed(L(<<>>)), op |-> LDC(Nil)]}
    \cup {[prog |-> Parsed(A(id)), op |-> LD(id)] :
            id \in LeafSymbols \ {"nil", "true", "false"}}

\* C13: literal and symbol compilation.  A fresh Compiler compiles an
\* integer literal n to the one instruction LDC(Int(n)), the symbols nil,
\* true and false to one LDC of Nil, True and False, any other symbol s to
\* one LD(s), and the empty list to one LDC(Nil).
C13_LeafCompilation ==
    cres # None
      => \A e \in LeafTable :
           e.prog = ast
             => /\ cres = Ok(<<CodeOPInfo(ast.info, e.op)>>)
                /\ ccode = <<CodeOPInfo(ast.info, e.op)>>

\* the symbol x has been compiled to LD(x)
C13_Witness ==
    /\ ast = Parsed(A("x"))
    /\ cres = Ok(<<CodeOPInfo(<<1, 1>>, LD("x"))>>)

\* the shapes C14 requires: every special form has its number of arguments,
\* the binder of let and letrec is a symbol, the parameters of lambda are a
\* symbol or a list of symbols, no list is headed by an integer, and all
\* sub-forms are shaped so
RECURSIVE WellShaped(_)
WellShaped(t) ==
    IF t.sexpr.tag # "List" \/ t.sexpr.ls = <<>> THEN TRUE
    ELSE LET head == Head(t.sexpr.ls)
             args == Tail(t.sexpr.ls)
             n == Len(args)
             AllShaped(from) == \A i \in from..n : WellShaped(args[i])
         IN  CASE head.sexpr.tag = "Int" -> FALSE
               [] head.sexpr.tag = "List" -> WellShaped(head) /\ AllShaped(1)
               [] OTHER ->
                    LET kw == head.sexpr.id
                    IN  CASE kw = "lambda" ->
                               /\ n = 2
                               /\ \/ args[1].sexpr.tag = "Atom"
                                  \/ /\ args[1].sexpr.tag = "List"
                                     /\ \A i \in 1..Len(args[1].sexpr.ls) :
                                          args[1].sexpr.ls[i].sexpr.tag = "Atom"
                               /\ AllShaped(2)
                          [] kw \in {"let", "letrec"} ->
                               n = 3 /\ args[1].sexpr.tag = "Atom" /\ AllShaped(2)
                          [] kw = "if" -> n = 3 /\ AllShaped(1)
                          [] kw \in {"eq", "+", "-", "cons"} -> n = 2 /\ AllShaped(1)
                          [] kw \in {"puts", "car", "cdr"} -> n = 1 /\ AllShaped(1)
                          [] OTHER -> AllShaped(1)
\* every program with the kind of result compile must return
ShapeTable ==
    {[prog |-> Parsed(t), kind |-> IF WellShaped(t) THEN "Ok" ELSE "Err"] : t \in Trees}

\* C14: special-form arity and shape errors.  compile returns Err when a
\* special form has a wrong number of arguments, when the binder of a let or
\* letrec is no symbol, when a lambda's parameter list holds a non-symbol or
\* its parameter position is an integer, and when a non-empty list is headed
\* by an integer; it returns Ok when every form is well shaped.  It never
\* ends any other way.
C14_ShapeErrors ==
    cres # None
      => /\ cres.kind \in {"Ok", "Err"}
         /\ \A e \in ShapeTable : e.prog = ast => cres.kind = e.kind
         /\ cres.kind = "Err" => cres.what = "compile error"

\* (let x 1) has been refused with "let syntax"
C14_Witness ==
    /\ ast = Parsed(L(<<A("let"), A("x"), I(1)>>))
    /\ cres = CompileErr(<<1, 2>>, "let syntax")

\* a tree with no application form: no list headed by a list or by a symbol
\* that is no keyword
RECURSIVE AppFree(_)
AppFree(t) ==
    IF t.sexpr.tag # "List" \/ t.sexpr.ls = <<>> THEN TRUE
    ELSE LET ls == t.sexpr.ls
         IN  /\ Head(ls).sexpr.tag = "Atom"
             /\ Head(ls).sexpr.id \in Keywords
             /\ \A i \in 2..Len(ls) : AppFree(ls[i])
AppFreePrograms == {Parsed(t) : t \in {u \in Trees : AppFree(u)}}
\* the number of instructions of a code sequence, those of nested SEL
\* branches included
RECURSIVE CodeSize(_)
CodeSize(c) ==
    IF c = <<>> THEN 0
    ELSE (IF Head(c).op.name = "SEL" THEN 1 + CodeSize(Head(c).op.t) + CodeSize(Head(c).op.f)
          ELSE 1)
         + CodeSize(Tail(c))
\* the instructions still to run at most: those of the code and those of the
\* code suspended by the conditionals
RECURSIVE Remaining(_, _)
Remaining(c, d) ==
    IF d = <<>> THEN CodeSize(c)
    ELSE (IF Last(d).tag = "DumpSEL" THEN CodeSize(Last(d).code) ELSE 0)
         + Remaining(c, Front(d))
\* run is again at a call it has not returned from, with the same stack,
\* environment, code, closure and arguments: it repeats that call without end
Repeats ==
    \E i, j \in DOMAIN calls :
        i < j /\ [calls[i] EXCEPT !.depth = 0] = [calls[j] EXCEPT !.depth = 0]

RECURSIVE AppNodes(_)
AppNodes(t) ==
    IF t.sexpr.tag # "List" \/ t.sexpr.ls = <<>> THEN {}
    ELSE LET ls == t.sexpr.ls
             head == Head(ls)
             Below(from) == UNION {AppNodes(ls[i]) : i \in from..Len(ls)}
         IN  CASE head.sexpr.tag = "Int" -> {}
               [] head.sexpr.tag = "Atom" /\ head.sexpr.id \in Keywords ->
                    IF head.sexpr.id = "lambda" THEN Below(3) ELSE Below(2)
               [] OTHER ->
                    {[h |-> head.info,
                      headTo |-> head.info[2] + Size(head) - 1,
                      args |-> [i \in 1..(Len(ls) - 1) |->
                                  [from |-> ls[i + 1].info[2],
                                   to |-> ls[i + 1].info[2] + Size(ls[i + 1]) - 1]],
                      symbol |-> IF head.sexpr.tag = "Atom" THEN <<head.sexpr.id>> ELSE <<>>]}
                    \cup Below(1)
\* the heads of the applications of a placed tree that are compiled while
\* their symbol is letrec-tracked, and the tracking set the tree leaves to
\* what the same compiler compiles next.  S is the set the tree starts with;
\* a let drops its id before its expression when retainFirst, after it
\* otherwise; a lambda body and the branches of an if start with a copy
RECURSIVE TrackCalls(_, _, _)
RECURSIVE TrackSeq(_, _, _)
TrackSeq(ts, S, retainFirst) ==
    IF ts = <<>> THEN [set |-> S, rap |-> {}]
    ELSE LET r == TrackCalls(Head(ts), S, retainFirst)
             rest == TrackSeq(Tail(ts), r.set, retainFirst)
         IN  [set |-> rest.set, rap |-> r.rap \cup rest.rap]
TrackCalls(t, S, retainFirst) ==
    IF t.sexpr.tag # "List" \/ t.sexpr.ls = <<>> THEN [set |-> S, rap |-> {}]
    ELSE LET ls == t.sexpr.ls
             head == Head(ls)
             kw == IF head.sexpr.tag = "Atom" THEN head.sexpr.id ELSE ""
         IN  CASE kw = "lambda" ->
                    [set |-> S, rap |-> TrackCalls(ls[3], S, retainFirst).rap]
               [] kw = "if" ->
                    LET c == TrackCalls(ls[2], S, retainFirst)
                    IN  [set |-> c.set,
                         rap |-> c.rap \cup TrackCalls(ls[3], c.set, retainFirst).rap
                                 \cup TrackCalls(ls[4], c.set, retainFirst).rap]
               [] kw = "let" ->
                    LET id == ls[2].sexpr.id
                        e == TrackCalls(ls[3], IF retainFirst THEN S \ {id} ELSE S, retainFirst)
                        b == TrackCalls(ls[4], IF retainFirst THEN e.set ELSE e.set \ {id},
                                        retainFirst)
                    IN  [set |-> b.set, rap |-> e.rap \cup b.rap]
               [] kw = "letrec" ->
                    LET e == TrackCalls(ls[3], S \cup {ls[2].sexpr.id}, retainFirst)
                        b == TrackCalls(ls[4], e.set, retainFirst)
                    IN  [set |-> b.set, rap |-> e.rap \cup b.rap]
               [] kw \in Keywords \ {"lambda", "if", "let", "letrec"} ->
                    TrackSeq(Tail(ls), S, retainFirst)
               [] OTHER ->
                    LET a == TrackSeq(Tail(ls), S, retainFirst)
                        h == TrackCalls(head, a.set, retainFirst)
                    IN  [set |-> h.set,
                         rap |-> a.rap \cup h.rap
                                 \cup (IF kw # "" /\ kw \in h.set THEN {head.info} ELSE {})]
\* a code sequence with the sequences nested in it: closure bodies and branches
RECURSIVE AllSeqs(_)
AllSeqs(c) ==
    {c} \cup UNION {CASE c[i].op.name = "LDF" -> AllSeqs(c[i].op.code)
                      [] c[i].op.name = "SEL" -> AllSeqs(c[i].op.t) \cup AllSeqs(c[i].op.f)
                      [] OTHER -> {} : i \in DOMAIN c}
\* the sequence q holds, for the application a, the code of its arguments
\* in source order, ARGS(n) at i, the code of the head, and the one call
\* instruction at j, which is call
EmitsApplication(q, a, call) ==
    LET n == Len(a.args)
        col(k) == q[k].info[2]
        InArgs(k) == \E x \in 1..n : a.args[x].from <= col(k) /\ col(k) <= a.args[x].to
        ArgOf(k) == CHOOSE x \in 1..n : a.args[x].from <= col(k) /\ col(k) <= a.args[x].to
    IN  \E i, j \in DOMAIN q :
          /\ i < j
          /\ q[i] = CodeOPInfo(a.h, ARGS(n))
          /\ q[j] = CodeOPInfo(a.h, call)
          /\ {k \in DOMAIN q : q[k].info = a.h /\ q[k].op \in {AP, RAP}} = {j}
          /\ j > i + 1
          /\ \A k \in (i + 1)..(j - 1) : a.h[2] <= col(k) /\ col(k) <= a.headTo
          /\ a.symbol # <<>> => j = i + 2 /\ q[i + 1].op \in {LD(a.symbol[1]), LDC(Nil)}
          /\ LET b == CHOOSE b \in 1..i :
                        /\ \A k \in b..(i - 1) : InArgs(k)
                        /\ b > 1 => ~InArgs(b - 1)
             IN  /\ \A x \in 1..n : \E k \in b..(i - 1) : ArgOf(k) = x
                 /\ \A k1, k2 \in b..(i - 1) : k1 < k2 => ArgOf(k1) <= ArgOf(k2)

\* C16: the application compilation rule.  For every application form of a
\* compiled program, whose head is no keyword, one code sequence holds the
\* code of the arguments in source order, then ARGS(n), then the code of the
\* head, then exactly one call instruction: RAP when the head is a bare
\* symbol that is in the letrec-tracking set when the head has been
\* compiled, AP when it is another symbol or a nested list.
C16_ApplicationRule ==
    (pc = "start" /\ cres.kind = "Ok")
      => \A a \in AppNodes(ast) :
           \E q \in AllSeqs(ccode) :
              EmitsApplication(q, a,
                  IF a.h \in TrackCalls(ast, {}, TRUE).rap THEN RAP ELSE AP)

\* (letrec f (lambda (x y) y) (f 1 (f 2 5))) has been compiled: the inner
\* call's code lies between LDC 1 and ARGS(2), and both calls are RAP
C16_Witness ==
    /\ pc = "start"
    /\ ast = Parsed(L(<<A("letrec"), A("f"),
                        L(<<A("lambda"), L(<<A("x"), A("y")>>), A("y")>>),
                        L(<<A("f"), I(1), L(<<A("f"), I(2), I(5)>>)>>)>>))
    /\ cres.kind = "Ok"
    /\ Len(ccode) = 11
    /\ ccode[3].op = LDC(LInt(1))
    /\ ccode[6].op = ARGS(2)
    /\ ccode[8].op = RAP
    /\ ccode[9].op = ARGS(2)
    /\ ccode[10].op = LD("f")
    /\ ccode[11].op = RAP

\* every program of RapForms with the result run must return
RapTable ==
    {[prog |-> Parsed(RapReadsCaller(e)), res |-> Ok(Denotes(e))] : e \in LetLits}
    \cup {[prog |-> Parsed(RapParam(e)), res |-> Ok(Cons(LInt(1), Denotes(e)))] : e \in LetLits}
    \cup {[prog |-> Parsed(RapCaptured(e[1], e[2])),
           res |-> Ok(Cons(Denotes(e[1]), Denotes(e[2])))] : e \in LetLits \X LetLits}
\* the programs that read, after the call has returned, a name bound only
\* during the call
RapUnboundAfter == {[prog |-> Parsed(RapLeaves(id)), msg |-> "LD: found " \o id] : id \in {"n", "w"}}

\* C17: the RAP register transition.  With a closure of k parameters on top
\* of the stack and a List of k values beneath it, RAP pops both, pushes
\* DumpAP(remaining stack, the caller's environment unchanged, remaining
\* code), empties the stack, sets the code to the closure's body and the
\* environment to the caller's overwritten by the captured bindings
\* overwritten by the parameters; the matching RET restores the caller's
\* environment of before the call, without the bindings made during it.
C17_RapTransition ==
    /\ [][(/\ Fetch("RAP") /\ Len(stack) >= 2
           /\ Last(stack).tag = "Closure"
           /\ stack[Len(stack) - 1].tag = "List"
           /\ Len(Last(stack).names) = Len(stack[Len(stack) - 1].vals))
          => LET closure == Last(stack)
                 vals == stack[Len(stack) - 1].vals
                 names == closure.names
                 LastAt(id) == CHOOSE i \in DOMAIN names :
                                  names[i] = id /\ \A j \in DOMAIN names : names[j] = id => j <= i
             IN  /\ pc' = "run"
                 /\ stack' = <<>>
                 /\ code' = closure.code
                 /\ dump' = Append(dump, DumpAP(SubSeq(stack, 1, Len(stack) - 2), env, Tail(code)))
                 /\ DOMAIN env' = DOMAIN env \cup DOMAIN closure.env \cup Range(names)
                 /\ \A id \in DOMAIN env' :
                      env'[id] = IF id \in Range(names) THEN vals[LastAt(id)]
                                 ELSE IF id \in DOMAIN closure.env THEN closure.env[id]
                                 ELSE env[id]]_vars
    /\ [][(/\ Fetch("RET") /\ pc' = "run" /\ calls # <<>>
           /\ Last(calls).kind = "RAP" /\ Last(calls).k = Last(calls).n)
          => /\ env' = Last(calls).env
             /\ stack' = Append(Last(calls).stack, Last(stack))
             /\ code' = Last(calls).code
             /\ dump' = SubSeq(dump, 1, Last(calls).depth)]_vars
    /\ [](pc = "done" => \A e \in RapTable : e.prog = ast => result = e.res)
    /\ [](pc = "done" => \A e \in RapUnboundAfter :
                            e.prog = ast => result.kind = "Err" /\ result.msg = e.msg)

\* a callee entered by RAP has read z, which only its caller had bound, and
\* has returned it
C17_Witness ==
    /\ ast = Parsed(RapReadsCaller(I(2)))
    /\ pc = "done"
    /\ fetched.op = RET
    /\ result = Ok(LInt(2))

\* the heads of the calls (id ...) of a placed tree that lie in the
\* expression or in the body of a (let id expr body); ids are the binders
\* of the lets around the tree
RECURSIVE LetScopedCalls(_, _)
LetScopedCalls(t, ids) ==
    IF t.sexpr.tag # "List" \/ t.sexpr.ls = <<>> THEN {}
    ELSE LET ls == t.sexpr.ls
             head == Head(ls)
             isLet == /\ head.sexpr = Atom("let")
                      /\ Len(ls) = 4
                      /\ ls[2].sexpr.tag = "Atom"
             inner == IF isLet THEN ids \cup {ls[2].sexpr.id} ELSE ids
         IN  (IF head.sexpr.tag = "Atom" /\ head.sexpr.id \in ids \ Keywords
              THEN {head.info} ELSE {})
             \cup UNION {LetScopedCalls(ls[i], inner) :
                           i \in (IF head.sexpr = Atom("lambda") THEN 3 ELSE 1)..Len(ls)}
\* the call instruction the compiled program holds for the application
\* whose head is at h
CallAt(h) ==
    LET ops == UNION {{q[k].op : k \in {k \in DOMAIN q : q[k].info = h /\ q[k].op \in {AP, RAP}}} :
                        q \in AllSeqs(ccode)}
    IN  IF ops = {AP} THEN "AP" ELSE IF ops = {RAP} THEN "RAP" ELSE "none"

\* C18: let and the letrec-tracking set.  (let id expr body) compiles expr,
\* then removes id from the tracking set, then emits LET(id), then compiles
\* body: a call (id ...) in expr is RAP when id was tracked before the let
\* and AP otherwise, and every call (id ...) in body is AP.
C18_LetCompilesExprFirst ==
    (pc = "start" /\ cres.kind = "Ok")
      => \A h \in LetScopedCalls(ast, {}) :
            CallAt(h) = IF h \in TrackCalls(ast, {}, FALSE).rap THEN "RAP" ELSE "AP"

\* (letrec f (lambda (n) (if (eq n 0) 0 (f (- n 1)))) (let f (f 1) f)) has
\* been compiled and run: the call (f 1) in the expression of the let was
\* made by AP, the callee did not find f, and run returned the error
C18_Witness ==
    /\ ast = Parsed(RebindForm("letrec", RebindCountdown, L(<<A("f"), I(1)>>), A("f")))
    /\ pc = "done"
    /\ \E k \in DOMAIN ccode : ccode[k].op = AP /\ ccode[k].info = <<1, 25>>
    /\ result.kind = "Err"
    /\ result.msg = "LD: found f"
    /\ result.info = <<1, 16>>

\* the instruction a call of f is compiled to after a let or a letrec of f
CallAfter(kw) == IF kw = "letrec" THEN "RAP" ELSE "AP"
\* the head of the call (f 1) of a placed NestedBinding(kw)
NestedCall(n, kw) ==
    IF kw = "none" THEN n.sexpr.ls[1].info ELSE n.sexpr.ls[4].sexpr.ls[1].info
\* the programs of NestForms: the head of the call inside the nested form
\* and the instruction it must be, the heads of the calls compiled after
\* the nested form and the instruction they must be, and the tracking list
\* the compiler must end with.  Under a sub-compiler the calls after the
\* nested form follow the outer binding alone; with no sub-compiler they
\* follow the nested binding
NestTable ==
    LET InnerCall(o, i) == CallAfter(IF i = "none" THEN o ELSE i)
        OuterList(o) == IF o = "letrec" THEN <<"f">> ELSE <<>>
        Lambda(o, i) ==
            LET p == Parsed(NestInLambda(o, i))
                pair == p.sexpr.ls[4].sexpr.ls
            IN  [prog |-> p,
                 inner |-> NestedCall(pair[2].sexpr.ls[1].sexpr.ls[3], i),
                 innerCall |-> InnerCall(o, i),
                 after |-> {pair[3].sexpr.ls[1].info},
                 afterCall |-> CallAfter(o),
                 list |-> OuterList(o)]
        Then(o, i, c) ==
            LET p == Parsed(NestInThen(o, i, c))
                pair == p.sexpr.ls[4].sexpr.ls
            IN  [prog |-> p,
                 inner |-> NestedCall(pair[2].sexpr.ls[3], i),
                 innerCall |-> InnerCall(o, i),
                 after |-> {pair[2].sexpr.ls[4].sexpr.ls[1].info, pair[3].sexpr.ls[1].info},
                 afterCall |-> CallAfter(o),
                 list |-> OuterList(o)]
        Else(o, i, c) ==
            LET p == Parsed(NestInElse(o, i, c))
                pair == p.sexpr.ls[4].sexpr.ls
            IN  [prog |-> p,
                 inner |-> NestedCall(pair[2].sexpr.ls[4], i),
                 innerCall |-> InnerCall(o, i),
                 after |-> {pair[3].sexpr.ls[1].info},
                 afterCall |-> CallAfter(o),
                 list |-> OuterList(o)]
        Unit_(o, i) ==
            LET p == Parsed(NestInUnit(o, i))
                pair == p.sexpr.ls[4].sexpr.ls
            IN  [prog |-> p,
                 inner |-> NestedCall(pair[2], i),
                 innerCall |-> InnerCall(o, i),
                 after |-> {pair[3].sexpr.ls[1].info},
                 afterCall |-> InnerCall(o, i),
                 list |-> CASE i = "let" -> <<>>
                            [] i = "letrec" -> Append(OuterList(o), "f")
                            [] OTHER -> OuterList(o)]
    IN  UNION {{Lambda(o, i), Unit_(o, i)}
               \cup {Then(o, i, c) : c \in {A("true"), A("false")}}
               \cup {Else(o, i, c) : c \in {A("true"), A("false")}} :
               o \in {"let", "letrec"}, i \in {"let", "letrec", "none"}}

\* C19: the letrec-tracking set is copied into the sub-compilers.  The call
\* in a lambda body or an if-branch is compiled against the enclosing
\* compiler's set as changed by the let or letrec of that body or branch
\* alone; the calls compiled afterwards in the sibling branch and in the
\* enclosing unit are RAP when the outer binding is a letrec and AP when it
\* is a let, whatever the body or branch binds, and the enclosing compiler
\* ends with the tracking set of the outer binding.
C19_TrackingSetCopied ==
    pc = "start"
      => \A e \in {t \in NestTable : t.prog = ast} :
            /\ cres.kind = "Ok"
            /\ CallAt(e.inner) = e.innerCall
            /\ \A h \in e.after : CallAt(h) = e.afterCall
            /\ letrec_id_list = e.list

\* (letrec f .. (cons (if true (let f .. (f 1)) (f 2)) (f 5))) has been
\* compiled: the call under the nested let is AP, the calls in the else
\* branch and after the conditional are RAP, and f is still tracked
C19_Witness ==
    /\ pc = "start"
    /\ ast = Parsed(NestInThen("letrec", "let", A("true")))
    /\ cres.kind = "Ok"
    /\ letrec_id_list = <<"f">>
    /\ Len(ccode) = 9
    /\ ccode[9].op = CONS
    /\ ccode[8].op = RAP
    /\ ccode[4].op.name = "SEL"
    /\ ccode[4].op.t[6].op = AP
    /\ ccode[4].op.f[4].op = RAP

\* C20: the dump depth invariant.  In every state of run the dump holds as
\* many frames as there are applications suspended (AP or RAP run whose RET
\* has not run) plus conditionals suspended (SEL run whose JOIN has not
\* run).
C20_DumpDepth ==
    pc \in {"run", "done"} => Len(dump) = Len(calls) + sels

\* LDC false, LDC true, SEL([LDC 1, RET], ..) has run: the RET inside the
\* branch popped the frame of the SEL, found it was no DumpAP and returned
\* the error, leaving an empty dump while the conditional has not joined
C20_Witness ==
    /\ ast = NoAst
    /\ pc = "done"
    /\ fetched.op = RET
    /\ result.kind = "Err"
    /\ result.msg = "RET: dump is empty"
    /\ sels = 1
    /\ calls = <<>>
    /\ dump = <<>>

\* the instructions the claimed rule gives a placed tree, as pairs of a
\* position and an instruction name: a leaf gives its load at its own
\* position, a list form gives its own instructions at the position of the
\* list node, and every part of a form gives its own
RECURSIVE NodeInstructions(_)
NodeInstructions(t) ==
    CASE t.sexpr.tag = "Int" -> {<<t.info, "LDC">>}
      [] t.sexpr.tag = "Atom" ->
           {<<t.info, IF t.sexpr.id \in {"nil", "true", "false"} THEN "LDC" ELSE "LD">>}
      [] t.sexpr.ls = <<>> -> {<<t.info, "LDC">>}
      [] OTHER ->
           LET ls == t.sexpr.ls
               head == Head(ls)
               kw == IF head.sexpr.tag = "Atom" THEN head.sexpr.id ELSE ""
               Parts(from) == UNION {NodeInstructions(ls[i]) : i \in from..Len(ls)}
               Own(names) == {<<t.info, n>> : n \in names}
           IN  CASE kw = "lambda" -> Own({"LDF", "RET"}) \cup Parts(3)
                 [] kw \in {"let", "letrec"} -> Own({"LET"}) \cup Parts(3)
                 [] kw = "puts" -> Own({"PUTS"}) \cup Parts(2)
                 [] kw = "if" -> Own({"SEL"}) \cup Parts(2)
                 [] kw = "eq" -> Own({"EQ"}) \cup Parts(2)
                 [] kw = "+" -> Own({"ADD"}) \cup Parts(2)
                 [] kw = "-" -> Own({"SUB"}) \cup Parts(2)
                 [] kw = "cons" -> Own({"CONS"}) \cup Parts(2)
                 [] kw = "car" -> Own({"CAR"}) \cup Parts(2)
                 [] kw = "cdr" -> Own({"CDR"}) \cup Parts(2)
                 [] OTHER -> Own({"ARGS", "AP", "RAP"}) \cup Parts(1)

\* C21: source-position threading.  Every instruction of a compiled program
\* carries the position of the node that produced it: a leaf's load the
\* position of the leaf, and the own instruction of a non-empty list form
\* (LDF, RET, LET, SEL, PUTS, EQ, ADD, SUB, CONS, CAR, CDR, ARGS, AP, RAP)
\* the position of the list node, never that of another node.
C21_PositionOfProducingNode ==
    (pc = "start" /\ cres.kind = "Ok")
      => \A q \in AllSeqs(ccode) :
           \A k \in DOMAIN q :
              q[k].op.name # "JOIN" => <<q[k].info, q[k].op.name>> \in NodeInstructions(ast)

\* (+ 1 2), whose list node is at column 1 and whose head + is at column 2,
\* has been compiled: ADD carries the position of the head
C21_Witness ==
    /\ pc = "start"
    /\ ast = Parsed(L(<<A("+"), I(1), I(2)>>))
    /\ ast.info = <<1, 1>>
    /\ ast.sexpr.ls[1].info = <<1, 2>>
    /\ cres.kind = "Ok"
    /\ ccode = <<CodeOPInfo(<<1, 3>>, LDC(LInt(1))),
                 CodeOPInfo(<<1, 4>>, LDC(LInt(2))),
                 CodeOPInfo(<<1, 2>>, ADD)>>

\* C22: the dump is well nested for compiled code.  While the code compile
\* returned runs, a RET is fetched only with a DumpAP frame on top of the
\* dump and a JOIN only with a DumpSEL frame on top, run returns none of the
\* errors of a missing or mismatched frame, and when run returns Ok the
\* dump is empty.
C22_WellNestedDump ==
    ast # NoAst
      => /\ Fetch("RET") => (dump # <<>> /\ Last(dump).tag = "DumpAP")
         /\ Fetch("JOIN") => (dump # <<>> /\ Last(dump).tag = "DumpSEL")
         /\ (pc = "done" /\ result.kind = "Err")
              => result.msg \notin {"RET: dump is empty", "JOIN: expected DumpSEL",
                                    "JOIN: dump is empty"}
         /\ (pc = "done" /\ result.kind = "Ok") => dump = <<>>

\* the factorial of 3 is about to return from a call made inside an else
\* branch that was itself entered inside a call: the frames alternate
C22_Witness ==
    /\ ast = Parsed(FactForm(3))
    /\ Fetch("RET")
    /\ Len(dump) >= 4
    /\ Last(dump).tag = "DumpAP"
    /\ dump[Len(dump) - 1].tag = "DumpSEL"
    /\ dump[Len(dump) - 2].tag = "DumpAP"
    /\ dump[1].tag = "DumpAP"

\* what run must return for the programs of SelfForms.  Called with 0 the
\* body never reads f.  Called with more, the body reads f: a call by RAP
\* finds it, a call by AP finds only what the closure captured, which is
\* nothing, or the function bound to f before the definition (it returns 5)
SelfUnbound == [kind |-> "Err", msg |-> "LD: found f"]
SelfTable ==
    LET Value(n) == [kind |-> "Ok", val |-> LInt(n)]
        Entry(form, res) == [prog |-> Parsed(form), res |-> res]
    IN  UNION {{Entry(SelfByName("letrec", k), Value(0)),
                Entry(SelfByName("let", k), IF k = 0 THEN Value(0) ELSE SelfUnbound)}
               \cup {Entry(SelfByParam(kw, k), IF k = 0 THEN Value(0) ELSE SelfUnbound) :
                       kw \in {"let", "letrec"}}
               \cup {Entry(SelfByListHead(kw, k), IF k = 0 THEN Value(0) ELSE SelfUnbound) :
                       kw \in {"let", "letrec"}}
               \cup {Entry(SelfBoundBefore(kw, k), IF k = 0 THEN Value(0) ELSE Value(5)) :
                       kw \in {"let", "letrec"}} :
               k \in SelfArgs}

\* C23: self-reference is unbound under AP.  The closure a LET is about to
\* bind, created by the LDF just before it, captured the environment as it
\* is before the LET, so it holds no binding of its own name made by that
\* LET.  A function whose body reads its own name f fails with the error of
\* an unbound f when it is called by AP (a let-bound function by name, a
\* letrec-bound function through a parameter or a nested-list head), unless
\* f was bound before the definition; called by RAP it finds f.
C23_SelfReferenceUnderAP ==
    /\ (Fetch("LET") /\ fetched.op.name = "LDF")
         => (Last(stack).tag = "Closure" /\ Last(stack).env = env)
    /\ pc = "done"
         => \A e \in {t \in SelfTable : t.prog = ast} :
               /\ result.kind = e.res.kind
               /\ e.res.kind = "Ok" => result = Ok(e.res.val)
               /\ e.res.kind = "Err" => (result.msg = e.res.msg /\ fetched.op = LD("f"))

\* (letrec f (lambda (n) (if (eq n 0) 0 (f (- n 1)))) ((lambda (g) (g 1)) f))
\* has run: f was called by AP through g and its body did not find f
C23_Witness ==
    /\ ast = Parsed(SelfByParam("letrec", 1))
    /\ pc = "done"
    /\ fetched.op = LD("f")
    /\ result.kind = "Err"
    /\ result.msg = "LD: found f"
    /\ Len(calls) = 2
    /\ calls[2].kind = "AP"
    /\ "f" \in DOMAIN calls[2].env
    /\ "f" \notin DOMAIN env

\* what run must return for the programs of LifeForms: the binding of the
\* branch taken is read after the JOIN; of a callee's bindings none is left
\* after the RET
LifeTable ==
    LET Entry(form, res) == [prog |-> Parsed(form), res |-> res]
        Unbound(id) == [kind |-> "Err", msg |-> "LD: found " \o id]
        Value(v) == [kind |-> "Ok", val |-> v]
    IN  UNION {{Entry(LifeBranch(A("true"), e), Value(Cons(Denotes(e), Denotes(e)))),
                Entry(LifeBranch(A("false"), e), Unbound("x")),
                Entry(LifeBranchOver(A("true"), e), Value(Cons(Denotes(e), Denotes(e)))),
                Entry(LifeBranchOver(A("false"), e), Value(Cons(LInt(0), LInt(5)))),
                Entry(LifeBranchInBody(A("true"), e), Value(Cons(Denotes(e), Denotes(e)))),
                Entry(LifeBranchInBody(A("false"), e), Unbound("x"))} : e \in LetLits}
        \cup {Entry(LifeCall("x"), Value(Cons(LInt(0), LInt(1)))),
              Entry(LifeCall("y"), Unbound("y")),
              Entry(LifeCall("n"), Unbound("n"))}

\* C24: the lifetime of LET bindings in the flat environment.  SEL and JOIN
\* leave the environment as it is, so a binding made by LET inside a branch
\* is read with the same value after the JOIN; a RET that returns puts back
\* the environment the caller had when it made the call, so the bindings
\* made by LET or by parameter passing during the call are gone and the
\* caller's bindings have the values they had before the call.
C24_BindingLifetime ==
    /\ [][(Fetch("SEL") \/ Fetch("JOIN")) => env' = env]_vars
    /\ [][(Fetch("RET") /\ pc' = "run")
            => (/\ env' = Last(dump).env
                /\ calls # <<>>
                /\ env' = Last(calls).env)]_vars
    /\ [](pc = "done"
            => \A e \in {t \in LifeTable : t.prog = ast} :
                  /\ result.kind = e.res.kind
                  /\ e.res.kind = "Ok" => result = Ok(e.res.val)
                  /\ e.res.kind = "Err" => result.msg = e.res.msg)

\* (let x 5 (cons (if true (let x 2 x) 0) x)) has run: the x read after the
\* JOIN is the one the branch bound
C24_Witness ==
    /\ ast = Parsed(LifeBranchOver(A("true"), I(2)))
    /\ pc = "done"
    /\ result = Ok(Cons(LInt(2), LInt(2)))
    /\ env["x"] = LInt(2)
    /\ sels = 0

\* the sequence a begins the sequence b
Prefix(a, b) == Len(a) <= Len(b) /\ SubSeq(b, 1, Len(a)) = a
\* the names of the instructions of a code sequence
OpNames(c) == [i \in DOMAIN c |-> c[i].op.name]
\* what a Compiler with an empty buffer and the tracking list ids does with a
Fresh(a, ids) == compile([code |-> <<>>, letrec_id_list |-> ids], a)
\* two trees compiled one after the other on one Compiler, and the
\* instructions the second compile must return
SeqTable ==
    LET f1 == L(<<A("f"), I(1)>>)
        f2 == L(<<A("f"), I(2)>>)
        Entry(a, b, names) == [first |-> Parsed(a), second |-> Parsed(b), names |-> names]
    IN  {Entry(L(<<A("letrec"), A("f"), RebindIdent, f1>>), f2,
               <<"LDF", "LET", "LDC", "ARGS", "LD", "RAP", "LDC", "ARGS", "LD", "RAP">>),
         Entry(L(<<A("let"), A("f"), RebindIdent, f1>>), f2,
               <<"LDF", "LET", "LDC", "ARGS", "LD", "AP", "LDC", "ARGS", "LD", "AP">>),
         Entry(L(<<A("+"), I(1), I(2)>>), L(<<A("+"), I(1), I(2)>>),
               <<"LDC", "LDC", "ADD", "LDC", "LDC", "ADD">>),
         Entry(L(<<A("+"), I(1), L(<<A("car")>>)>>), I(1), <<"LDC", "LDC">>),
         Entry(L(<<A("letrec"), A("f"), L(<<A("car")>>), I(1)>>), f2,
               <<"LDC", "ARGS", "LD", "RAP">>),
         Entry(L(<<A("cons"), f1, L(<<A("car"), I(1), I(2)>>)>>), A("x"),
               <<"LDC", "ARGS", "LD", "AP", "LD">>)}

\* C25: the Compiler's state accumulates across calls.  No compile call
\* removes an instruction from the buffer.  After every call the buffer is
\* the buffer before the call followed by what a Compiler with an empty
\* buffer and the same tracking list emits for the tree, error or not, the
\* tracking list is the one that Compiler ends with, and a call that
\* succeeds returns the whole buffer, its call sites being RAP exactly for
\* the symbols tracked by then.  Two trees compiled in sequence return the
\* instructions of the first followed by those of the second.
C25_CompilerAccumulates ==
    /\ [][Prefix(ccode, ccode')]_vars
    /\ [](before # <<>>
            => LET b == Last(before)
                   fresh == Fresh(ast, b.letrec_id_list)
                   own == SubSeq(ccode, Len(b.code) + 1, Len(ccode))
               IN  /\ b.ast = ast
                   /\ ccode = b.code \o fresh.self.code
                   /\ letrec_id_list = fresh.self.letrec_id_list
                   /\ cres.kind = fresh.res.kind
                   /\ cres.kind = "Ok"
                        => /\ cres.val = ccode
                           /\ \A a \in AppNodes(ast) :
                                \E q \in AllSeqs(own) :
                                   EmitsApplication(q, a,
                                       IF a.h \in TrackCalls(ast, Range(b.letrec_id_list), TRUE).rap
                                       THEN RAP ELSE AP))
    /\ [](Len(before) = 2
            => \A e \in {t \in SeqTable : t.first = before[1].ast /\ t.second = ast} :
                  /\ cres.kind = "Ok"
                  /\ OpNames(cres.val) = e.names
                  /\ before[2].code = SubSeq(cres.val, 1, Len(before[2].code)))

\* (letrec f (lambda (n) n) (f 1)) and then (f 2) have been compiled by one
\* Compiler: the second call returned the code of both, and the call of the
\* second tree is a RAP because the first left f tracked
C25_Witness ==
    /\ Len(before) = 2
    /\ before[1].ast = Parsed(L(<<A("letrec"), A("f"), RebindIdent, L(<<A("f"), I(1)>>)>>))
    /\ before[2].code # <<>>
    /\ before[2].letrec_id_list = <<"f">>
    /\ ast = Parsed(L(<<A("f"), I(2)>>))
    /\ cres.kind = "Ok"
    /\ Len(cres.val) = 10
    /\ SubSeq(cres.val, 1, 6) = before[2].code
    /\ cres.val[6].op = RAP
    /\ cres.val[7] = CodeOPInfo(<<1, 3>>, LDC(LInt(2)))
    /\ cres.val[10] = CodeOPInfo(<<1, 2>>, RAP)

====
